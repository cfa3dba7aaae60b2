-------------------------- MODULE CircleCheckpoint --------------------------
(***************************************************************************)
(* The checkpoint file circle<rank>.txt of one rank.  Writing it pops      *)
(* every item off the queue into a line of its own; reading it pushes what *)
(* fgets returns, less the last character.  An item is a string: a         *)
(* sequence of characters, of which only the newline matters.              *)
(***************************************************************************)
EXTENDS Integers, Sequences, SequencesExt

CONSTANTS
    Char,            \* characters
    Newline,
    Strings,         \* strings the callbacks enqueue
    MAX_STRING_LEN,  \* CIRCLE_MAX_STRING_LEN: with the terminating NUL
    MaxItems         \* bound: items in the queue

ASSUME CharAssumption == Newline \in Char /\ Strings \subseteq Seq(Char)
ASSUME LenAssumption == MAX_STRING_LEN \in Nat /\ MAX_STRING_LEN > 1

VARIABLES
    queue,    \* the items of the queue, topmost last
    file,     \* text of the file, empty when there is none
    written   \* history: the queue that was last written to the file

checkpointVars == <<queue, file, written>>

(* The text that pops and fprintf("%s\n") produce from a queue.            *)
Text(q) == FlattenSeq([i \in 1 .. Len(q) |-> Append(Reverse(q)[i], Newline)])

(* Mutant: the last character, in general the newline, is kept.            *)
Chunk_whole(text, i, n) == SubSeq(text, i, n)

Chunk(text, i, n) == SubSeq(text, i, n - 1)

(* The last character of those that fgets reads from i on: it reads up to  *)
(* the newline, but no more than MAX_STRING_LEN - 1 characters.            *)
LineEnd(text, i) ==
    CHOOSE j \in i .. Len(text) :
        /\ text[j] = Newline \/ j = i + MAX_STRING_LEN - 2 \/ j = Len(text)
        /\ \A k \in i .. j - 1 : text[k] # Newline /\ k # i + MAX_STRING_LEN - 2

(* What repeated calls of fgets return, in each the last character read    *)
(* overwritten with NUL.                                                   *)
Lines(text) ==
    LET from[i \in 1 .. Len(text) + 1] ==
            IF i > Len(text) THEN <<>>
            ELSE <<Chunk(text, i, LineEnd(text, i))>> \o from[LineEnd(text, i) + 1]
    IN  from[1]

CheckpointInit ==
    /\ queue = <<>>
    /\ file = <<>>
    /\ written = <<>>

Enqueue(i) ==
    /\ Len(queue) < MaxItems
    /\ Len(i) + 1 <= MAX_STRING_LEN
    /\ queue' = Append(queue, i)
    /\ UNCHANGED <<file, written>>

Dequeue ==
    /\ queue # <<>>
    /\ queue' = Front(queue)
    /\ UNCHANGED <<file, written>>

(* CIRCLE_internal_queue_write *)
CIRCLE_checkpoint ==
    /\ queue # <<>>
    /\ file' = Text(queue)
    /\ written' = queue
    /\ queue' = <<>>

(* CIRCLE_internal_queue_read, in this or in a later process.              *)
CIRCLE_read_restarts ==
    /\ file # <<>>
    /\ Len(queue) + Len(Lines(file)) <= MaxItems
    /\ queue' = queue \o Lines(file)
    /\ UNCHANGED <<file, written>>

(* The process ends with what is in its queue; the file stays.             *)
Exit ==
    /\ queue' = <<>>
    /\ UNCHANGED <<file, written>>

CheckpointNext ==
    \/ \E i \in Strings : Enqueue(i)
    \/ Dequeue
    \/ CIRCLE_checkpoint
    \/ CIRCLE_read_restarts
    \/ Exit

CheckpointSpec == CheckpointInit /\ [][CheckpointNext]_checkpointVars

-----------------------------------------------------------------------------
(* Correctness.                                                            *)

(* A string that survives the file: no newline in it, and with the one     *)
(* that is written behind it it fits the buffer fgets is given.            *)
Plain(str) == Newline \notin Range(str) /\ Len(str) + 2 <= MAX_STRING_LEN

(* The file gives back what was written to it, each item as it was, in the *)
(* opposite order, exactly when all the items are plain.  The push accepts *)
(* others too, and one of those is enough to garble what is read back.     *)
FileRestores == Lines(file) = Reverse(written) <=> \A str \in Range(written) : Plain(str)
=============================================================================
