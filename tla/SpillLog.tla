------------------------------ MODULE SpillLog ------------------------------
(***************************************************************************)
(* What a Milena spill file promises its writers and readers, without      *)
(* bytes, handles, buffers or crashes: an append-only sequence of records. *)
(* A record may land in the log without its writer ever learning it (the   *)
(* process died, or the write failed after the bytes had left), but once   *)
(* the writer has been told, nothing removes, moves or changes the record. *)
(***************************************************************************)
EXTENDS Naturals, Sequences

CONSTANT Records      \* the payloads that may be stored

VARIABLES
    log,              \* the records of the file, oldest first
    acked             \* the <<position, payload>> pairs writers were promised

Init ==
    /\ log = << >>
    /\ acked = {}

\* A record becomes part of the file.
Store(r) ==
    /\ log' = Append(log, r)
    /\ UNCHANGED acked

\* The writer of the newest record is told that it is stored.
Acknowledge ==
    /\ log # << >>
    /\ acked' = acked \cup {<<Len(log), log[Len(log)]>>}
    /\ UNCHANGED log

Next == (\E r \in Records : Store(r)) \/ Acknowledge

Spec == Init /\ [][Next]_<<log, acked>>

=============================================================================
