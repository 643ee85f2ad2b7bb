----------------------------- MODULE VersionLine ----------------------------
(***************************************************************************)
(* What a document promises of its versions: one line, to which uploads    *)
(* and supersessions add at the end and of which nothing is removed; a     *)
(* version keeps its file, a signature is never undone, and only the       *)
(* newest version, the current one, can be superseded. Documents           *)
(* implements this, however its calls race or are cut off.                 *)
(***************************************************************************)
EXTENDS Naturals, Sequences

CONSTANT Files

VARIABLES
    line,           \* line[i]: the file of version i, whether it is signed, superseded
    current         \* the number of the current version, 0 for none

lineVars == <<line, current>>

LineInit == line = <<>> /\ current = 0

Unsigned(file) == [file |-> file, signed |-> FALSE, superseded |-> FALSE]

\* A version after the others, which stay as they are.
Uploaded(file) ==
    /\ line' = Append(line, Unsigned(file))
    /\ current' = Len(line) + 1

\* A version after the current one, which it supersedes.
Superseded(file) ==
    /\ current # 0
    /\ line' = Append([line EXCEPT ![current].superseded = TRUE], Unsigned(file))
    /\ current' = Len(line) + 1

Signed(i) ==
    /\ i \in DOMAIN line
    /\ line' = [line EXCEPT ![i].signed = TRUE]
    /\ UNCHANGED current

LineNext ==
    \/ \E file \in Files : Uploaded(file) \/ Superseded(file)
    \/ \E i \in DOMAIN line : Signed(i)

LineSpec == LineInit /\ [][LineNext]_lineVars

=============================================================================
