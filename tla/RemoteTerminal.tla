--------------------------- MODULE RemoteTerminal ---------------------------
(***************************************************************************)
(* The shells of administrators (RemoteTerminalGateway): a connection is   *)
(* authenticated, asks the feature flag, asks for a two-factor grant, and  *)
(* gets a shell; a sweep every 30 seconds ends the shells of users whose   *)
(* grant has lapsed. The flag is the one of FeatureFlags, read by the      *)
(* connections.                                                            *)
(***************************************************************************)
EXTENDS FeatureFlags, FiniteSets

CONSTANTS
    MaxGrants   \* bound: two-factor verifications of the user

ASSUME GrantsAssumption == MaxGrants \in Nat

(* Connections are the readers of the flag; each is made once. *)
Clients == Readers

VARIABLES
    socket,     \* socket[c]: "new", "up" or "down"
    handling,   \* handling[c]: where handleConnection stands
    sessions,   \* clients with a shell
    granted,    \* the user holds a remote-access grant
    grants,     \* number of verifications so far
    sweep       \* the sweep under way, and whom it has looked at

termVars == <<socket, handling, sessions, granted, grants, sweep>>
flagAndTermVars == <<flagVars, termVars>>

NoSweep == [on |-> FALSE, seen |-> {}]

TermInit ==
    /\ FlagInit
    /\ socket = [c \in Clients |-> "new"]
    /\ handling = [c \in Clients |-> "none"]
    /\ sessions = {}
    /\ granted = FALSE
    /\ grants = 0
    /\ sweep = NoSweep

Handling(c, pc) == handling' = [handling EXCEPT ![c] = pc]
Down(c) == socket' = [socket EXCEPT ![c] = "down"]
ReaderBecomes(c, m) ==
    /\ reader' = [reader EXCEPT ![c] = m]
    /\ UNCHANGED <<flag, cache, admin, ops, told, undone>>

-----------------------------------------------------------------------------
(* handleConnection                                                        *)

Connect(c) ==
    /\ socket[c] = "new"
    /\ socket' = [socket EXCEPT ![c] = "up"]
    /\ Handling(c, "auth")
    /\ UNCHANGED <<flagVars, sessions, granted, grants, sweep>>

(* The connection is turned down: it has no shell yet. *)
Reject(c) == Handling(c, "none") /\ Down(c)

(* Cookies or role are no good, Redis or the authentication service fails, *)
(* or there is no shell to be had.                                         *)
ConnectionFails(c) ==
    /\ handling[c] # "none"
    /\ Reject(c)
    /\ ReaderBecomes(c, NotReading)
    /\ UNCHANGED <<sessions, granted, grants, sweep>>

Authenticate(c) ==
    /\ handling[c] = "auth"
    /\ Handling(c, "flag")
    /\ ReaderBecomes(c, Reading("get", FALSE))
    /\ UNCHANGED <<socket, sessions, granted, grants, sweep>>

FlagAnswers(c) ==
    /\ handling[c] = "flag"
    /\ reader[c].pc = "got"
    /\ IF reader[c].on THEN Handling(c, "stepup") /\ UNCHANGED socket ELSE Reject(c)
    /\ ReaderBecomes(c, NotReading)
    /\ UNCHANGED <<sessions, granted, grants, sweep>>

CheckStepUp(c) ==
    /\ handling[c] = "stepup"
    /\ IF granted THEN Handling(c, "spawn") /\ UNCHANGED socket ELSE Reject(c)
    /\ UNCHANGED <<flagVars, sessions, granted, grants, sweep>>

(* The shell starts, though the client may have left meanwhile. *)
Spawn(c) ==
    /\ handling[c] = "spawn"
    /\ Handling(c, "none")
    /\ sessions' = sessions \cup {c}
    /\ UNCHANGED <<flagVars, socket, granted, grants, sweep>>

-----------------------------------------------------------------------------
(* Ends                                                                    *)

(* cleanup: the shell is killed. *)
Cleanup(c) == sessions' = sessions \ {c}

(* The client leaves: handleDisconnect. *)
Disconnect(c) ==
    /\ socket[c] = "up"
    /\ Down(c)
    /\ Cleanup(c)
    /\ UNCHANGED <<flagVars, handling, granted, grants, sweep>>

ShellExit(c) ==
    /\ c \in sessions
    /\ Cleanup(c)
    /\ Down(c)
    /\ UNCHANGED <<flagVars, handling, granted, grants, sweep>>

(* grantStepUp, and the end of the 60 minutes or revokeStepUp. *)
GrantStepUp ==
    /\ grants < MaxGrants
    /\ grants' = grants + 1
    /\ granted' = TRUE
    /\ UNCHANGED <<flagVars, socket, handling, sessions, sweep>>

GrantLapses ==
    /\ granted
    /\ granted' = FALSE
    /\ UNCHANGED <<flagVars, socket, handling, sessions, grants, sweep>>

SweepStart ==
    /\ ~sweep.on
    /\ sessions # {}
    /\ sweep' = [on |-> TRUE, seen |-> {}]
    /\ UNCHANGED <<flagVars, socket, handling, sessions, granted, grants>>

(* Mutant: killing the shell is left to the disconnect that follows. *)
SweepOne_DisconnectOnly(c) ==
    /\ sweep.on
    /\ c \in sessions \ sweep.seen
    /\ sweep' = [sweep EXCEPT !.seen = @ \cup {c}]
    /\ IF granted \/ socket[c] = "down" THEN UNCHANGED <<socket, sessions>>
       ELSE Down(c) /\ Cleanup(c)
    /\ UNCHANGED <<flagVars, handling, granted, grants>>

(* The next session of the map, one that has been added meanwhile too. *)
SweepOne(c) ==
    /\ sweep.on
    /\ c \in sessions \ sweep.seen
    /\ sweep' = [sweep EXCEPT !.seen = @ \cup {c}]
    /\ IF granted THEN UNCHANGED <<socket, sessions>> ELSE Down(c) /\ Cleanup(c)
    /\ UNCHANGED <<flagVars, handling, granted, grants>>

(* Redis fails for one session: it is logged, the sweep goes on. *)
SweepFails(c) ==
    /\ sweep.on
    /\ c \in sessions \ sweep.seen
    /\ sweep' = [sweep EXCEPT !.seen = @ \cup {c}]
    /\ UNCHANGED <<flagVars, socket, handling, sessions, granted, grants>>

SweepEnd ==
    /\ sweep.on
    /\ sessions \subseteq sweep.seen
    /\ sweep' = NoSweep
    /\ UNCHANGED <<flagVars, socket, handling, sessions, granted, grants>>

-----------------------------------------------------------------------------
Client(c) ==
    \/ Connect(c) \/ Authenticate(c) \/ FlagAnswers(c) \/ CheckStepUp(c) \/ Spawn(c)
    \/ ConnectionFails(c) \/ Disconnect(c) \/ ShellExit(c)

Sweep == SweepStart \/ SweepEnd \/ \E c \in Clients : SweepOne(c) \/ SweepFails(c)

TermNext ==
    \/ FlagNext /\ UNCHANGED termVars
    \/ \E c \in Clients : Client(c)
    \/ GrantStepUp \/ GrantLapses \/ Sweep

TermSpec == TermInit /\ [][TermNext]_flagAndTermVars

(* The cron job runs every 30 seconds; Redis answers some of the time. The *)
(* grant need not lapse and clients owe nothing.                           *)
FairSpec ==
    /\ TermSpec
    /\ FlagFairness
    /\ WF_flagAndTermVars(SweepStart) /\ WF_flagAndTermVars(SweepEnd)
    /\ \A c \in Clients : SF_flagAndTermVars(SweepOne(c)) /\ WF_flagAndTermVars(SweepOne(c) \/ SweepFails(c))

-----------------------------------------------------------------------------
TermTypeOK ==
    /\ FlagTypeOK
    /\ socket \in [Clients -> {"new", "up", "down"}]
    /\ handling \in [Clients -> {"none", "auth", "flag", "stepup", "spawn"}]
    /\ sessions \subseteq Clients
    /\ granted \in BOOLEAN
    /\ grants \in 0..MaxGrants
    /\ sweep \in [on : BOOLEAN, seen : SUBSET Clients]

(* "Disconnect any session whose remote-access grant has expired": every   *)
(* shell of a user without a grant ends, or the user verifies again; also  *)
(* one that was started just after the grant lapsed, one whose client left *)
(* before it was started, and in spite of failing lookups.                 *)
LapseEndsShell ==
    \A c \in Clients :
        (c \in sessions /\ ~granted) ~> (c \notin sessions \/ granted)

(* "One PTY shell per connected admin socket" *)
ShellHasSocket == \A c \in sessions : socket[c] = "up"
=============================================================================
