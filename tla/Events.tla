------------------------------- MODULE Events -------------------------------
(***************************************************************************)
(* nyx::EventManager.  Every manager enrolls subscribers in three tables   *)
(* that all managers share, and keeps a list of what it enrolled, to       *)
(* delete it when it is reset.  pushEvent walks the tables and executes    *)
(* the subscribers that match, which may enroll, push and reset in turn.   *)
(*                                                                         *)
(* A subscriber is a number, in the order they are allocated.  A name, a   *)
(* key and a type of event are numbers as well: what matters is the order  *)
(* in which std::multimap keeps them.                                      *)
(***************************************************************************)
EXTENDS Naturals, Sequences, FiniteSets

CONSTANTS
  Managers,   \* the managers a program has, besides that of the windows
  Index,      \* names, keys and types: numbers
  Places,     \* where programs enroll: tables and indices
  PushedByClient, \* events programs push themselves
  EventLiberties,
  MaxSubs,    \* bound: subscribers allocated
  MaxDepth    \* bound: pushes inside one another; a subscriber makes one

(* The three tables, in the order pushEvent walks them.                    *)
Tables == {"callbacks", "key_callbacks", "type_callbacks"}

(* "same": a subscriber is enrolled where there is one already.            *)
(* "twice": a manager that has enrolled subscribers is reset, and used on. *)
(* "inside": a manager is reset or destroyed by a subscriber.              *)
ASSUME EventsAssumption ==
  /\ Index \subseteq Nat
  /\ Places \subseteq (Tables \X Index)
  /\ PushedByClient \subseteq [key : Index, type : Index]
  /\ EventLiberties \subseteq {"same", "twice", "inside"}
  /\ MaxSubs \in Nat /\ MaxDepth \in Nat

VARIABLES
  table,     \* man_data: the subscriber at each index of each table, or 0
  subs,      \* subscribers allocated: where they belong, and if deleted
  local,     \* the local_callbacks of each manager, table by table
  managers,  \* managers that are constructed
  stack,     \* calls of pushEvent in progress, the innermost last
  wrong      \* first use of an iterator after its entry was erased, or "none"

eventVars == <<table, subs, local, managers, stack, wrong>>

NoCallbacks == [t \in Tables |-> <<>>]

EventsInit ==
  /\ table = [t \in Tables |-> [i \in Index |-> 0]]
  /\ subs = <<>>
  /\ local = [m \in Managers |-> NoCallbacks]
  /\ managers = {}
  /\ stack = <<>>
  /\ wrong = "none"

Going == wrong = "none"

-----------------------------------------------------------------------------
(* Enrolling and resetting. *)

Construct(m) ==
  /\ Going /\ m \notin managers
  /\ managers' = managers \union {m}
  /\ UNCHANGED <<table, subs, local, stack, wrong>>

Enrolled(t, i) == {s \in DOMAIN subs : subs[s].table = t /\ subs[s].index = i /\ subs[s].live}

\* Mutant: the manager does not list what it enrolled.
Unlisted(m, t, s) == local

WithListed(m, t, s) == [local EXCEPT ![m][t] = Append(@, s)]

(* The six forms of enroll.  A subscriber is allocated in any case; it is  *)
(* dropped when the table has one at its index.                            *)
Enroll(m, t, i) ==
  LET s == Len(subs) + 1
  IN  /\ Going /\ m \in managers
      /\ s <= MaxSubs
      /\ "same" \in EventLiberties \/ Enrolled(t, i) = {}
      /\ subs' = Append(subs, [table |-> t, index |-> i, live |-> TRUE])
      /\ \/ /\ table[t][i] = 0
            /\ table' = [table EXCEPT ![t][i] = s]
            /\ local' = WithListed(m, t, s)
         \/ /\ table[t][i] # 0
            /\ UNCHANGED <<table, local>>
      /\ UNCHANGED <<managers, stack, wrong>>

Listed(m) == UNION {{local[m][t][k] : k \in DOMAIN local[m][t]} : t \in Tables}

\* Mutant: the entries of the table are kept.
KeepsEntries(gone) == table

WithoutEntries(gone) ==
  [t \in Tables |-> [i \in Index |-> IF table[t][i] \in gone THEN 0 ELSE table[t][i]]]

(* Each subscriber listed is deleted and its entry erased; the list stays. *)
ResetManager(m) ==
  LET gone == Listed(m)
  IN  /\ wrong' = IF \A s \in gone : subs[s].live THEN wrong ELSE "erased twice"
      /\ subs' = [s \in DOMAIN subs |->
                    IF s \in gone THEN [subs[s] EXCEPT !.live = FALSE] ELSE subs[s]]
      /\ table' = WithoutEntries(gone)

OutsidePush == stack = <<>> \/ "inside" \in EventLiberties

Reset(m) ==
  /\ Going /\ m \in managers
  /\ OutsidePush
  /\ Listed(m) = {} \/ "twice" \in EventLiberties
  /\ ResetManager(m)
  /\ UNCHANGED <<local, managers, stack>>

(* ~EventManager: reset, and the lists are deleted. *)
Destroy(m) ==
  /\ Going /\ m \in managers
  /\ OutsidePush
  /\ ResetManager(m)
  /\ managers' = managers \ {m}
  /\ local' = [local EXCEPT ![m] = NoCallbacks]
  /\ UNCHANGED stack

-----------------------------------------------------------------------------
(* Pushing an event. *)

(* The entries an event is for. *)
Matches(event, t, i) ==
  \/ t = "callbacks"
  \/ t = "key_callbacks" /\ i = event.key
  \/ t = "type_callbacks" /\ i = event.type

Rank(t) == CASE t = "callbacks" -> 1 [] t = "key_callbacks" -> 2 [] OTHER -> 3

(* The order of the walk. *)
Before(t, i, u, j) == Rank(t) < Rank(u) \/ (t = u /\ i < j)

\* Mutants: a subscriber is executed again, or those after it are skipped.
Again(t, i, u, j) == Before(t, i, u, j) \/ (t = u /\ i = j)
Skips(t, i, u, j) == Rank(t) < Rank(u)

(* What ++cb leads to. *)
Later(t, i, u, j) == Before(t, i, u, j)

(* The subscribers the walk has still to execute after entry (t, i).       *)
Ahead(event, t, i) ==
  {s \in DOMAIN subs :
     LET u == subs[s].table
         j == subs[s].index
     IN  table[u][j] = s /\ Matches(event, u, j) /\ Later(t, i, u, j)}

(* The first of them. *)
First(set) ==
  CHOOSE s \in set :
    \A r \in set : s = r \/ Before(subs[s].table, subs[s].index, subs[r].table, subs[r].index)

(* Who is to be executed for an event: those enrolled for it.              *)
Due(event) ==
  {s \in DOMAIN subs : subs[s].live /\ Matches(event, subs[s].table, subs[s].index)}

(* Those found when the walk begins. *)
Found(event) ==
  {s \in DOMAIN subs :
     /\ table[subs[s].table][subs[s].index] = s
     /\ Matches(event, subs[s].table, subs[s].index)}

Walk(event) == [event |-> event, at |-> First(Found(event)), pushed |-> FALSE,
                ran |-> {}, due |-> Due(event)]

Pushing(event) ==
  /\ Going
  /\ \/ /\ Found(event) = {}
        /\ UNCHANGED stack
     \/ /\ Found(event) # {}
        /\ stack' = Append([k \in DOMAIN stack |-> [stack[k] EXCEPT !.pushed = TRUE]],
                           Walk(event))
  /\ UNCHANGED <<table, subs, local, managers, wrong>>

(* A program pushes an event through a manager of its own.                 *)
Push(m, event) ==
  /\ m \in managers
  /\ Len(stack) < MaxDepth
  /\ \A k \in DOMAIN stack : k = Len(stack) => ~stack[k].pushed
  /\ Pushing(event)

(* A subscriber returns, and the walk goes on to the next entry.           *)
Return ==
  LET top  == stack[Len(stack)]
      s    == top.at
      next == Ahead(top.event, subs[s].table, subs[s].index)
      rest == SubSeq(stack, 1, Len(stack) - 1)
  IN  /\ Going
      /\ stack # <<>>
      /\ \/ /\ ~subs[s].live
            /\ wrong' = "erased under the walk"
            /\ UNCHANGED stack
         \/ /\ subs[s].live /\ next = {}
            /\ stack' = rest
            /\ UNCHANGED wrong
         \/ /\ subs[s].live /\ next # {}
            /\ stack' = Append(rest, [top EXCEPT !.at = First(next), !.pushed = FALSE,
                                               !.ran = @ \union {s}])
            /\ UNCHANGED wrong
      /\ UNCHANGED <<table, subs, local, managers>>

OfManagers ==
  \E m \in Managers :
    \/ Construct(m) \/ Reset(m) \/ Destroy(m)
    \/ \E p \in Places : Enroll(m, p[1], p[2])
    \/ \E event \in PushedByClient : Push(m, event)

-----------------------------------------------------------------------------
(* Properties. *)

Subscriptions == [table : Tables, index : Index, live : BOOLEAN]
EventSet      == [key : Index, type : Index]
Frames        == [event : EventSet, at : 1 .. Len(subs), pushed : BOOLEAN,
                  ran : SUBSET (1 .. Len(subs)), due : SUBSET (1 .. Len(subs))]

EventsTypeOK ==
  /\ table \in [Tables -> [Index -> 0 .. Len(subs)]]
  /\ subs \in Seq(Subscriptions)
  /\ local \in [Managers -> [Tables -> Seq(1 .. Len(subs))]]
  /\ managers \in SUBSET Managers
  /\ stack \in Seq(Frames)
  /\ wrong \in {"none", "erased twice", "erased under the walk"}

(* What is enrolled is deleted once, and never while a walk is at it       *)
(* (EventManager::reset, EventManager::pushEvent).                         *)
NoDangling == wrong = "none"

(* Every subscriber that is not deleted stands in its table, and in the    *)
(* list of one manager that will delete it: nothing leaks, and nothing is  *)
(* left behind in the shared tables by a manager that is gone.             *)
OneOwner ==
  Going =>
    \A s \in DOMAIN subs :
      /\ (table[subs[s].table][subs[s].index] = s) <=> subs[s].live
      /\ subs[s].live => Cardinality({m \in managers : s \in Listed(m)}) = 1

(* pushEvent executes every subscriber that was enrolled for the event     *)
(* when it was called and is still there when it returns, whatever         *)
(* subscribers do meanwhile.                                               *)
EveryoneHears ==
  [][Going' /\ Len(stack') < Len(stack) =>
       LET top == stack[Len(stack)]
       IN  {s \in top.due : subs[s].live} \subseteq top.ran \union {top.at}]_eventVars

(* It executes none of them twice. *)
NobodyTwice == \A k \in DOMAIN stack : stack[k].at \notin stack[k].ran

(* An event is heard once by everyone it is for, whatever subscribers      *)
(* enroll and push while the tables are walked (pushEvent).                *)
EachOnce == EveryoneHears /\ []NobodyTwice

-----------------------------------------------------------------------------
(* The invariant of a program that takes no liberties. *)

(* A subscriber stands in its table until it is deleted, *)
Standing == \A s \in DOMAIN subs : (table[subs[s].table][subs[s].index] = s) <=> subs[s].live

(* where it belongs. *)
InPlace ==
  \A t \in Tables, i \in Index :
    table[t][i] # 0 => subs[table[t][i]].table = t /\ subs[table[t][i]].index = i

(* The managers there are list the subscribers that are not deleted, each  *)
(* one in one list.                                                        *)
Lists ==
  /\ \A m \in Managers : \A s \in Listed(m) : m \in managers /\ subs[s].live
  /\ \A m, n \in Managers : m # n => Listed(m) \intersect Listed(n) = {}
  /\ \A s \in DOMAIN subs : subs[s].live => \E m \in managers : s \in Listed(m)

(* Those a walk has executed come before the one it is at, and those it    *)
(* still owes the event come after.                                        *)
InOrder(walk) ==
  LET t == subs[walk.at].table
      i == subs[walk.at].index
  IN  /\ subs[walk.at].live
      /\ \A r \in walk.ran : Later(subs[r].table, subs[r].index, t, i)
      /\ \A s \in walk.due : Matches(walk.event, subs[s].table, subs[s].index)
      /\ \A s \in walk.due : subs[s].live /\ s # walk.at /\ s \notin walk.ran
           => Later(t, i, subs[s].table, subs[s].index)

EventsInv ==
  /\ NoDangling
  /\ Standing
  /\ InPlace
  /\ Lists
  /\ \A k \in DOMAIN stack : InOrder(stack[k])

=============================================================================
