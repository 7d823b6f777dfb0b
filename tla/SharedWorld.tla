----------------------------- MODULE SharedWorld -----------------------------
(***************************************************************************)
(* What the game server promises its participants: a world of things that  *)
(* each belong to one participant, and for every member a view of some of  *)
(* the others' things.  Who sees what when is left open; what is promised  *)
(* is that nobody meddles with what is not theirs, that an id names one    *)
(* thing forever, and that a view never shows what is gone or one's own.   *)
(***************************************************************************)
CONSTANT Participants

VARIABLES
    members,  \* the participants who are signed in
    world,    \* from the ids of things to things, records with an owner
    used,     \* every id ever given to a thing
    sees,     \* the ids each participant is shown
    actor     \* who took the last step

vars == <<members, world, used, sees, actor>>

Things(w, c) == {id \in DOMAIN w : w[id].owner = c}

Init ==
    /\ members = {}
    /\ DOMAIN world = {}
    /\ used = {}
    /\ sees = [c \in Participants |-> {}]
    /\ actor = {}

(* Only c's things come, change and go; what comes has an id of its own.   *)
ActsAlone(c) ==
    /\ DOMAIN world' \ DOMAIN world \subseteq Things(world', c) \ used
    /\ used' = used \cup DOMAIN world'
    /\ \A id \in DOMAIN world \ Things(world, c) :
          id \in DOMAIN world' /\ world'[id] = world[id]
    /\ Things(world, c) \cap DOMAIN world' \subseteq Things(world', c)

(* A view holds things of others that are there.                           *)
ViewsAreTrue ==
    /\ DOMAIN sees' = Participants
    /\ \A p \in members' : sees'[p] \subseteq DOMAIN world' \ Things(world', p)
    /\ \A p \in Participants \ members' : sees'[p] = {}

(* The others' views change only in what they show of c.                   *)
ViewsFollow(c) ==
    \A p \in members \ {c} :
        LET ofC == Things(world, c) \cup Things(world', c)
        IN  sees'[p] \ ofC = sees[p] \ ofC

Enter(c) ==
    /\ c \notin members
    /\ members' = members \cup {c}
    /\ UNCHANGED <<world, used, sees>>

Act(c) ==
    /\ ActsAlone(c)
    /\ ViewsAreTrue
    /\ ViewsFollow(c)
    /\ UNCHANGED members

Leave(c) ==
    /\ c \in members
    /\ members' = members \ {c}
    /\ ActsAlone(c)
    /\ Things(world', c) = {}
    /\ ViewsAreTrue
    /\ ViewsFollow(c)

Next ==
    \E c \in Participants :
        /\ Enter(c) \/ Act(c) \/ Leave(c)
        /\ actor' = {c}

Spec == Init /\ [][Next]_vars

=============================================================================
