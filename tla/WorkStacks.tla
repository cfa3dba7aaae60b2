----------------------------- MODULE WorkStacks -----------------------------
(***************************************************************************)
(* What the local queues promise: each rank has a stack of work items, and *)
(* a work reply carries the topmost items of one stack, in order, to a     *)
(* rank whose stack is empty.                                              *)
(***************************************************************************)
EXTENDS Naturals, Sequences

CONSTANTS Ranks, Strings

VARIABLES
    stack,    \* stack of each rank, topmost item last
    carried,  \* items of the work reply that is on its way to each rank
    dequeued  \* the item that was last dequeued

stackVars == <<stack, carried, dequeued>>

StackInit ==
    /\ stack = [r \in Ranks |-> <<>>]
    /\ carried = [r \in Ranks |-> <<>>]
    /\ dequeued \notin Strings

Push(r, i) ==
    /\ stack' = [stack EXCEPT ![r] = Append(@, i)]
    /\ UNCHANGED <<carried, dequeued>>

Pop(r) ==
    LET n == Len(stack[r]) IN
    /\ n > 0
    /\ dequeued' = stack[r][n]
    /\ stack' = [stack EXCEPT ![r] = SubSeq(@, 1, n - 1)]
    /\ UNCHANGED carried

Transfer(r, d, k) ==
    LET n == Len(stack[r]) IN
    /\ k <= n
    /\ carried[d] = <<>>
    /\ carried' = [carried EXCEPT ![d] = SubSeq(stack[r], n - k + 1, n)]
    /\ stack' = [stack EXCEPT ![r] = SubSeq(@, 1, n - k)]
    /\ UNCHANGED dequeued

Arrive(d) ==
    /\ stack[d] = <<>>
    /\ stack' = [stack EXCEPT ![d] = carried[d]]
    /\ carried' = [carried EXCEPT ![d] = <<>>]
    /\ UNCHANGED dequeued

StackNext ==
    \E r \in Ranks :
        \/ \E i \in Strings : Push(r, i)
        \/ Pop(r)
        \/ \E d \in Ranks \ {r} : \E k \in 1 .. Len(stack[r]) : Transfer(r, d, k)
        \/ Arrive(r)

StackSpec == StackInit /\ [][StackNext]_stackVars
=============================================================================
