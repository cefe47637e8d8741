------------------------------ MODULE AgentSlots ------------------------------
(***************************************************************************)
(* What the background agent manager promises of its two shared resources, *)
(* abstractly: every user has MaxParallel slots, every run holds a slot    *)
(* and an exclusive name, and a run gives its name back no earlier than    *)
(* its slot.  Nothing is said of how or when a run ends.                   *)
(***************************************************************************)
EXTENDS Naturals, FiniteSets

CONSTANTS Users, Runs, Names, MaxParallel, NoUser

VARIABLES
    owner,  \* the user of each run, NoUser before it exists
    slot,   \* the runs that count against max_parallel
    held    \* the pairs <<run, name>> of names in use

slotVars == <<owner, slot, held>>

SlotsInit ==
    /\ owner = [r \in Runs |-> NoUser]
    /\ slot = {}
    /\ held = {}

\* A new run takes a free slot of its user and a name nobody holds.
Acquire(u, r, n) ==
    /\ owner[r] = NoUser
    /\ Cardinality({s \in slot : owner[s] = u}) < MaxParallel
    /\ \A s \in Runs : <<s, n>> \notin held
    /\ owner' = [owner EXCEPT ![r] = u]
    /\ slot' = slot \cup {r}
    /\ held' = held \cup {<<r, n>>}

NamesOf(r) == {p \in held : p[1] = r}

\* The slot is vacated, with or without the name.
Vacate(r) ==
    /\ r \in slot
    /\ slot' = slot \ {r}
    /\ held' \in {held, held \ NamesOf(r)}
    /\ owner' = owner

\* The name is released by a run that has no slot any more.
Release(r) ==
    /\ r \notin slot
    /\ held' = held \ NamesOf(r)
    /\ UNCHANGED <<owner, slot>>

SlotsNext ==
    \/ \E u \in Users, r \in Runs, n \in Names : Acquire(u, r, n)
    \/ \E r \in Runs : Vacate(r) \/ Release(r)

SlotsSpec == SlotsInit /\ [][SlotsNext]_slotVars
=============================================================================
