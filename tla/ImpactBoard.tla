------------------------------ MODULE ImpactBoard ------------------------------
(***************************************************************************)
(* What the impact recalculation promises: at any time the impacts on     *)
(* record for an event are one whole assessment of it, made from the      *)
(* profiles as they were at some moment, and a caller is told either the  *)
(* assessment that went on record or that nobody is affected.              *)
(* ImpactRecalculation implements it.                                      *)
(***************************************************************************)
EXTENDS Naturals, Sequences

CONSTANTS Events, Sessions, Factors, Mentions, None

VARIABLES
    profiles,  \* the traits of the clients, in the order they were added
    board,     \* the impacts on record for each event
    told       \* the list each session was answered, or None

boardVars == <<profiles, board, told>>

\* The factors an event and a client share decide the level: one makes the
\* impact Medium, a second one makes it High.
Shared(e, c)   == Mentions[e] \cap profiles[c]
IsHigh(e, c)   == \E f, g \in Shared(e, c) : f # g
IsMedium(e, c) == Shared(e, c) # {} /\ ~IsHigh(e, c)

\* The assessment of an event from the first n profiles.
Whole(e, n) ==
    {[client |-> c, level |-> "High"] : c \in {d \in 1..n : IsHigh(e, d)}}
        \cup {[client |-> c, level |-> "Medium"] : c \in {d \in 1..n : IsMedium(e, d)}}

BoardInit ==
    /\ profiles = <<>>
    /\ board = [e \in Events |-> {}]
    /\ told = [s \in Sessions |-> None]

AddProfile(traits) ==
    /\ profiles' = Append(profiles, traits)
    /\ UNCHANGED <<board, told>>

\* A whole assessment goes on record; its caller may never hear of it.
Reassess(e, n) ==
    /\ board' = [board EXCEPT ![e] = Whole(e, n)]
    /\ UNCHANGED <<profiles, told>>

ReassessAndTell(s, e, n) ==
    /\ told[s] = None
    /\ board' = [board EXCEPT ![e] = Whole(e, n)]
    /\ told' = [told EXCEPT ![s] = Whole(e, n)]
    /\ UNCHANGED profiles

\* A caller is told that nobody was affected, whatever is on record.
TellNobody(s, e, n) ==
    /\ told[s] = None
    /\ Whole(e, n) = {}
    /\ told' = [told EXCEPT ![s] = {}]
    /\ UNCHANGED <<profiles, board>>

BoardNext ==
    \/ \E traits \in SUBSET Factors : AddProfile(traits)
    \/ \E e \in Events, n \in 0..Len(profiles) :
          \/ Reassess(e, n)
          \/ \E s \in Sessions : ReassessAndTell(s, e, n) \/ TellNobody(s, e, n)

BoardSpec == BoardInit /\ [][BoardNext]_boardVars
=============================================================================
