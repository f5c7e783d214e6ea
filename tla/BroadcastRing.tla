--------------------------- MODULE BroadcastRing ---------------------------
(***************************************************************************)
(* What a disruptor promises, whichever claim strategy and wait strategy   *)
(* it is made of: a ring of cells through which every consumer gets every  *)
(* published item, in the order of the sequence numbers.  There are no     *)
(* threads, words or barriers here: sequence numbers do not wrap, a claim  *)
(* is granted in one step and a consumer knows at once what is published.  *)
(***************************************************************************)
EXTENDS Integers

CONSTANTS Consumers, BufferSize, Ancestors

VARIABLES
    held,       \* the sequences granted to producers and not yet published
    published,  \* the sequences published
    cells,      \* [0 .. BufferSize - 1 -> Int], the item of sequence s is s
    next,       \* [Consumers -> Int], the next sequence each one reads
    released    \* [Consumers -> Int], how far it has allowed overwriting

vars == <<held, published, cells, next, released>>

Cell(s) == s % BufferSize

Init ==
    /\ held = {} /\ published = {}
    /\ cells = [i \in 0 .. BufferSize - 1 |-> -1]
    /\ next = [c \in Consumers |-> 0]
    /\ released = [c \in Consumers |-> -1]

\* No one else has s, and all consumers have released the cell's last item.
Grantable(s) ==
    /\ s \in Nat /\ s \notin held \cup published
    /\ \A c \in Consumers : s <= released[c] + BufferSize

Grant ==
    /\ held \subseteq held' /\ held' # held
    /\ \A s \in held' \ held : Grantable(s)
    /\ UNCHANGED <<published, cells, next, released>>

Write ==
    /\ \E s \in held : cells' = [cells EXCEPT ![Cell(s)] = s]
    /\ UNCHANGED <<held, published, next, released>>

\* Sequences are published in any order, each once and after it was written.
Publish ==
    /\ \E S \in SUBSET held :
          /\ S # {} /\ \A s \in S : cells[Cell(s)] = s
          /\ held' = held \ S
          /\ published' = published \cup S
    /\ UNCHANGED <<cells, next, released>>

\* A consumer reads the next item if it is published, still in its cell, and
\* done with by the consumers that come before it.
Read(c) ==
    /\ next[c] \in published /\ cells[Cell(next[c])] = next[c]
    /\ \A d \in Ancestors[c] : next[c] <= released[d]
    /\ next' = [next EXCEPT ![c] = @ + 1]
    /\ UNCHANGED <<held, published, cells, released>>

Release(c) ==
    /\ released[c] < next[c] - 1
    /\ released' = [released EXCEPT ![c] = next[c] - 1]
    /\ UNCHANGED <<held, published, cells, next>>

Next == Grant \/ Write \/ Publish \/ \E c \in Consumers : Read(c) \/ Release(c)

Spec == Init /\ [][Next]_vars

\* What is granted is in the end written and published, what is published is
\* read by every consumer and what is read is released.
FairSpec ==
    /\ Spec
    /\ WF_vars(Write) /\ WF_vars(Publish)
    /\ \A c \in Consumers : WF_vars(Read(c)) /\ WF_vars(Release(c))

=============================================================================
