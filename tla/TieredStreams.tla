---------------------------- MODULE TieredStreams ----------------------------
(***************************************************************************)
(* Tiered storage under a streamed write: a chunked upload is put together *)
(* in its destination through createWriteStream, whose open(2) follows a   *)
(* link like every other and does not start a promotion. The stream keeps  *)
(* the file it opened, whatever becomes of the name, and libuv makes its   *)
(* calls in other threads: they come between the system calls of a         *)
(* demotion or a promotion too. One stream (bound).                        *)
(***************************************************************************)
EXTENDS TieredStorage

VARIABLE stream     \* the stream: its name, the entry its file has, what it writes

svars == <<vars, stream>>

IdleStream == [pc |-> "idle", name |-> None, file |-> None, data |-> None, moved |-> {}]

InitStreams == Init /\ stream = IdleStream

(* The bytes at the entry f of the main drive or of a cold one. *)
Store(f, v) ==
    /\ main' = IF f \in Names THEN [main EXCEPT ![f] = v] ELSE main
    /\ cold' = IF f \in Blobs THEN [cold EXCEPT ![f] = v] ELSE cold

(* The move of n that is under way, whose copy the stream does not get     *)
(* into whole.                                                             *)
Moves(move, n) ==
    CASE move = IdleTurn \/ move.name # n -> {}
      [] move # IdleTurn /\ move.step \in {"demote_copied", "demote_linked"} -> {"demoted"}
      [] OTHER -> {"promoted"}

(* createWriteStream: the file is truncated, or created. *)
StreamOpen(n, v) ==
    /\ stream.pc # "open"
    /\ NameFree(n, n)
    /\ LET f == IF IsLink(n) THEN main[n] ELSE n
       IN  /\ Store(f, Torn)
           /\ stream' = [pc |-> "open", name |-> n, file |-> f, data |-> v,
                         moved |-> Moves(turn, n)]
    /\ UNCHANGED <<turn, jobs>>

(* The last part is written and the upload is reported as stored. *)
StreamEnd ==
    /\ stream.pc = "open"
    /\ Store(stream.file, stream.data)
    /\ stream' = [stream EXCEPT !.pc = "done"]
    /\ UNCHANGED <<turn, jobs>>

(* The file has the entry f still, or none: it was replaced, or removed. *)
Entry(f) == CASE f \in Names -> IF main'[f] \in Data \cup {Torn} THEN f ELSE None
              [] f \in Blobs -> IF cold'[f] # None THEN f ELSE None
              [] OTHER -> None

(* What the other handlers do meanwhile. *)
Moved ==
    /\ Sweeping \/ Promoting \/ Evacuating \/ SystemCalls
    /\ stream' = [stream EXCEPT !.file = Entry(@), !.moved = @ \cup
                     IF stream.pc = "open" THEN Moves(turn', stream.name) ELSE {}]

(* What users do to files ends what a stream that is over is held to.      *)
Touched(f) == stream' = [stream EXCEPT !.file = f, !.moved = @ \cup {"touched"}]

Used ==
    \/ (\E n \in UserNames : Read(n)) /\ UNCHANGED stream
    \/ (\E n \in Paths, v \in Data : Write(n, v)) /\ Touched(stream.file)
    \/ (\E n \in UserNames : Delete(n) \/ DeleteUnlink(n)) /\ Touched(Entry(stream.file))
    \/ \E p, q \in Paths :
          /\ Rename(p, q)
          /\ Touched(CASE stream.file = p -> q
                       [] stream.file = q -> None
                       [] OTHER -> stream.file)

NextStreams ==
    \/ Moved
    \/ Used
    \/ Crashing /\ stream' = IdleStream
    \/ \E n \in Paths, v \in Data : StreamOpen(n, v)
    \/ StreamEnd

SpecStreams == InitStreams /\ [][NextStreams]_svars

-----------------------------------------------------------------------------
Whole == stream.pc = "done" => View(stream.name) = stream.data

(* An upload that was streamed and reported as stored is what its name     *)
(* reads as, through sweeps and promotions that come later, until users    *)
(* change files again; unless the name was moved while the stream was      *)
(* open.                                                                   *)
StreamStored == stream.moved = {} => Whole

(* The same although a sweep demoted the name under the stream: it goes by *)
(* the time of the last access, which a write does not set, so a stale     *)
(* file that is being overwritten is copied as far as it got, and the      *)
(* stream goes on into a file without a name.                              *)
StreamStoredThoughDemoted == stream.moved \subseteq {"demoted"} => Whole

(* The same although a reader promoted the name under the stream: what was *)
(* written to the blob after the copy is removed with it.                  *)
StreamStoredThoughPromoted == stream.moved \subseteq {"promoted"} => Whole
=============================================================================
