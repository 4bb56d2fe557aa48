---------------------------- MODULE EvaluatorDag ----------------------------
(***************************************************************************)
(* Lazy evaluation of the field dependency graph of Amanzi's State         *)
(* (src/src/state/evaluators).                                             *)
(*                                                                         *)
(* A field is owned by one evaluator.  A primary evaluator is a leaf that  *)
(* a process kernel (PK) overwrites and then marks with SetChanged; an     *)
(* independent evaluator is a leaf computed from the clock; a secondary    *)
(* evaluator is a function of its dependencies.  Nobody tells a secondary  *)
(* evaluator that something below it changed: each evaluator remembers the *)
(* requesters it has already served since its data last changed            *)
(* (requests_, deriv_requests_), and "not served yet" is what means        *)
(* "changed" to a requester.  Derivatives are evaluated the same way.      *)
(*                                                                         *)
(* Update and UpdateDerivative recurse over the graph.  The recursion is   *)
(* written out one call or return at a time: caller, todo, changed and top *)
(* are the C++ stack frames.  used, done and ret are history variables.    *)
(***************************************************************************)
EXTENDS Naturals

CONSTANTS
  Primary,       \* keys of EvaluatorPrimary
  Independent,   \* keys of EvaluatorIndependent
  Temporal,      \* those of them with temporally_variable_ set
  Secondary,     \* keys of EvaluatorSecondary
  Deps,          \* dependencies_ of every secondary evaluator
  Rank,          \* a topological numbering: the graph has no cycle
  Position,      \* the order of the keys in a std::set<KeyTag>
  Wrt,           \* keys that derivatives are requested with respect to
  Clients,       \* the PKs and other callers of Update ("flow", "energy")
  Times          \* values of the clock S.get_time()

Keys == Primary \cup Independent \cup Secondary

ASSUME KeysAssumption ==
  /\ Primary \cap Independent = {}
  /\ Primary \cap Secondary = {}
  /\ Independent \cap Secondary = {}
  /\ Temporal \subseteq Independent
  /\ Wrt \subseteq Keys
  /\ Wrt \cap {"value", "client", "idle"} = {}

ASSUME DepsAssumption ==
  /\ Deps \in [Secondary -> SUBSET Keys]
  /\ Rank \in [Keys -> Nat]
  /\ Position \in [Keys -> Nat]
  /\ \A k \in Secondary : \A d \in Deps[k] : Rank[d] < Rank[k]

-----------------------------------------------------------------------------
(* The evaluation graph                                                    *)

\* Everything a key depends on, directly or not: what IsDependency searches.
Below[k \in Keys] ==
  IF k \in Secondary
  THEN Deps[k] \cup UNION {Below[d] : d \in Deps[k]}
  ELSE {}

Value(k) == <<k, "value">>
ValueNodes == {Value(k) : k \in Keys}

\* Pairs for which IsDifferentiableWRT holds, other than a key and itself,
\* whose derivative is 1 and is never evaluated below another one.
DerivNodes == {n \in Secondary \X Wrt : n[2] \in Below[n[1]]}

Nodes == ValueNodes \cup DerivNodes
ClientReqs == Clients \X {"client"}
Requesters == Nodes \cup ClientReqs
Idle == <<"idle", "idle">>

KeyOf(n) == n[1]
IsPrimary(n) == n \in ValueNodes /\ KeyOf(n) \in Primary
IsIndependent(n) == n \in ValueNodes /\ KeyOf(n) \in Independent
IsSecondary(n) == n \in ValueNodes /\ KeyOf(n) \in Secondary
IsDeriv(n) == n \in DerivNodes

DepValues(n) == {Value(d) : d \in Deps[KeyOf(n)]}
DepDerivs(n) == {m \in DerivNodes : /\ KeyOf(m) \in Deps[KeyOf(n)]
                                    /\ KeyOf(m) # n[2]
                                    /\ m[2] = n[2]}

\* The evaluators that the Update or UpdateDerivative of n calls.
Calls(n) ==
  IF IsDeriv(n) THEN {Value(KeyOf(n))} \cup DepDerivs(n)
  ELSE IF IsSecondary(n) THEN DepValues(n)
  ELSE {}

\* The data that the current data of n depend on.
Uses(n) == Calls(n) \cup (IF IsDeriv(n) THEN DepValues(n) ELSE {})

-----------------------------------------------------------------------------
VARIABLES
  requests,  \* requests_ of a value, the part of deriv_requests_ of a pair
  computed,  \* keys with updated_once_ (secondary) or computed_once_ (independent)
  stamp,     \* time_ of every independent evaluator
  time,      \* S.get_time()
  caller,    \* frame: who waits for this Update
  todo,      \* frame: the calls the loop over dependencies_ has still to make
  changed,   \* frame: the local variable "update"
  active,    \* nodes that have a frame on the stack
  top,       \* the frame that runs, or Idle
  used,      \* history: the nodes whose present data a requester has used
  done,      \* history: nodes served since the outermost call began
  ret        \* history: what the last outermost call returned, and to whom

data == <<requests, computed, stamp, time>>
frames == <<caller, todo, changed, active, top>>
history == <<used, done, ret>>
vars == <<requests, computed, stamp, time, caller, todo, changed, active, top,
          used, done, ret>>

NoRet == [client |-> Idle, node |-> Idle, answer |-> TRUE]
Returns == [client : ClientReqs, node : Nodes, answer : BOOLEAN] \cup {NoRet}

TypeOK ==
  /\ requests \in [Nodes -> SUBSET Requesters]
  /\ computed \subseteq Secondary \cup Independent
  /\ stamp \in [Independent -> Times]
  /\ time \in Times
  /\ caller \in [Nodes -> Requesters \cup {Idle}]
  /\ todo \in [Nodes -> SUBSET Nodes]
  /\ changed \in [Nodes -> BOOLEAN]
  /\ active \subseteq Nodes
  /\ top \in Nodes \cup {Idle}
  /\ used \in [Requesters -> SUBSET Nodes]
  /\ done \subseteq Nodes
  /\ ret \in Returns

Init ==
  /\ requests = [n \in Nodes |-> {}]
  /\ computed = {}
  /\ time \in Times
  /\ stamp = [i \in Independent |-> time]
  /\ caller = [n \in Nodes |-> Idle]
  /\ todo = [n \in Nodes |-> {}]
  /\ changed = [n \in Nodes |-> FALSE]
  /\ active = {}
  /\ top = Idle
  /\ used = [r \in Requesters |-> {}]
  /\ done = {}
  /\ ret = NoRet

-----------------------------------------------------------------------------
(* Calls                                                                   *)

Push(n, r) ==
  /\ active' = active \cup {n}
  /\ top' = n
  /\ caller' = [caller EXCEPT ![n] = r]
  /\ changed' = [changed EXCEPT ![n] = FALSE]

\* A PK asks for the data of n: S.GetEvaluator(key).Update(S, client), or
\* UpdateDerivative(S, client, wrt_key, wrt_tag).
Request(c, n) ==
  /\ top = Idle
  /\ Push(n, <<c, "client">>)
  /\ todo' = [todo EXCEPT ![n] = Calls(n)]
  /\ done' = {}
  /\ ret' = NoRet
  /\ UNCHANGED <<requests, computed, stamp, time, used>>

\* The loop goes through the std::set dependencies_ in the order of the keys;
\* UpdateDerivative updates its own value before the derivatives below it.
NextCalls(n) ==
  IF IsDeriv(n) /\ Value(KeyOf(n)) \in todo[n] THEN {Value(KeyOf(n))}
  ELSE {m \in todo[n] :
          \A x \in todo[n] : Position[KeyOf(m)] <= Position[KeyOf(x)]}

\* Faulty: the iterator of the loop does not advance.
CallWithoutAdvancing(d) ==
  /\ top # Idle
  /\ d \in NextCalls(top)
  /\ Push(d, top)
  /\ todo' = [todo EXCEPT ![d] = Calls(d)]
  /\ UNCHANGED <<requests, computed, stamp, time, used, done, ret>>

\* One turn of the loop over dependencies_.
Call(d) ==
  /\ top # Idle
  /\ d \in NextCalls(top)
  /\ Push(d, top)
  /\ todo' = [todo EXCEPT ![top] = @ \ {d}, ![d] = Calls(d)]
  /\ UNCHANGED <<requests, computed, stamp, time, used, done, ret>>

-----------------------------------------------------------------------------
(* Returns                                                                 *)

\* The frame of n returns the answer; evaluated says that Update_ or
\* UpdateDerivative_ has just replaced the data of n.
Return(n, answer, evaluated) ==
  LET r == caller[n]
      outermost == r \in ClientReqs
      \* data replaced: nobody has used them yet; n has used what it reads
      used1 == IF evaluated
               THEN [x \in Requesters |->
                       IF x = n THEN Uses(n) ELSE used[x] \ {n}]
               ELSE used
  IN /\ active' = active \ {n}
     /\ top' = IF outermost THEN Idle ELSE r
     /\ caller' = [caller EXCEPT ![n] = Idle]
     /\ changed' = [x \in Nodes |->
                      IF x = n THEN FALSE
                      ELSE IF x = r THEN changed[x] \/ answer
                      ELSE changed[x]]
     /\ used' = IF outermost /\ answer
                THEN [used1 EXCEPT ![r] = @ \cup {n}] ELSE used1
     /\ done' = done \cup {n}
     /\ ret' = IF outermost THEN [client |-> r, node |-> n, answer |-> answer]
               ELSE NoRet
     /\ UNCHANGED todo

\* Faulty: the requester is not recorded.
UpdatePrimaryUnrecorded(n) ==
  /\ top = n
  /\ IsPrimary(n)
  /\ requests' = requests
  /\ Return(n, caller[n] \notin requests[n], FALSE)
  /\ UNCHANGED <<computed, stamp, time>>

\* EvaluatorPrimary_::Update
UpdatePrimary(n) ==
  /\ top = n
  /\ IsPrimary(n)
  /\ requests' = [requests EXCEPT ![n] = @ \cup {caller[n]}]
  /\ Return(n, caller[n] \notin requests[n], FALSE)
  /\ UNCHANGED <<computed, stamp, time>>

\* EvaluatorIndependent_::Update, the two branches that call Update_.
OutOfDate(i) == i \in Temporal /\ stamp[i] # time

\* Faulty: an evaluation does not clear requests_.
UpdateIndependentUncleared(n) ==
  LET i == KeyOf(n) IN
  /\ top = n
  /\ IsIndependent(n)
  /\ i \notin computed \/ OutOfDate(i)
  /\ requests' = [requests EXCEPT ![n] = @ \cup {caller[n]}]
  /\ computed' = computed \cup {i}
  /\ stamp' = [stamp EXCEPT ![i] = IF i \in Temporal THEN time ELSE @]
  /\ Return(n, TRUE, TRUE)
  /\ UNCHANGED time

UpdateIndependent(n) ==
  LET i == KeyOf(n) IN
  /\ top = n
  /\ IsIndependent(n)
  /\ i \notin computed \/ OutOfDate(i)
  /\ requests' = [requests EXCEPT
       ![n] = IF i \notin computed THEN @ \cup {caller[n]} ELSE {caller[n]}]
  /\ computed' = computed \cup {i}
  /\ stamp' = [stamp EXCEPT ![i] = IF i \in Temporal THEN time ELSE @]
  /\ Return(n, TRUE, TRUE)
  /\ UNCHANGED time

\* EvaluatorIndependent_::Update, the field is current.
KeepIndependent(n) ==
  /\ top = n
  /\ IsIndependent(n)
  /\ KeyOf(n) \in computed
  /\ ~OutOfDate(KeyOf(n))
  /\ requests' = [requests EXCEPT ![n] = @ \cup {caller[n]}]
  /\ Return(n, caller[n] \notin requests[n], FALSE)
  /\ UNCHANGED <<computed, stamp, time>>

\* The condition "update" of EvaluatorSecondary::Update after its loop.
MustEvaluate(n) == changed[n] \/ KeyOf(n) \notin computed

\* Faulty: requests_ is not cleared ...
UpdateSecondaryUncleared(n) ==
  /\ top = n
  /\ IsSecondary(n)
  /\ todo[n] = {}
  /\ MustEvaluate(n)
  /\ computed' = computed \cup {KeyOf(n)}
  /\ requests' = [requests EXCEPT ![n] = @ \cup {caller[n]}]
  /\ Return(n, TRUE, TRUE)
  /\ UNCHANGED <<stamp, time>>

\* ... or cleared after the insertion instead of before it.
UpdateSecondaryClearedLast(n) ==
  /\ top = n
  /\ IsSecondary(n)
  /\ todo[n] = {}
  /\ MustEvaluate(n)
  /\ computed' = computed \cup {KeyOf(n)}
  /\ requests' = [requests EXCEPT ![n] = {}]
  /\ Return(n, TRUE, TRUE)
  /\ UNCHANGED <<stamp, time>>

\* EvaluatorSecondary::Update after its loop, with "update" set.
UpdateSecondary(n) ==
  /\ top = n
  /\ IsSecondary(n)
  /\ todo[n] = {}
  /\ MustEvaluate(n)
  /\ computed' = computed \cup {KeyOf(n)}
  /\ requests' = [requests EXCEPT ![n] = {caller[n]}]
  /\ Return(n, TRUE, TRUE)
  /\ UNCHANGED <<stamp, time>>

\* ... else: is this requester new?
KeepSecondary(n) ==
  /\ top = n
  /\ IsSecondary(n)
  /\ todo[n] = {}
  /\ ~MustEvaluate(n)
  /\ requests' = [requests EXCEPT ![n] = @ \cup {caller[n]}]
  /\ Return(n, caller[n] \notin requests[n], FALSE)
  /\ UNCHANGED <<computed, stamp, time>>

\* EvaluatorSecondary::UpdateDerivative after its loop.  deriv_requests_ holds
\* the requests for every wrt_key, and all of them are dropped.
UpdateDerivative(n) ==
  /\ top = n
  /\ IsDeriv(n)
  /\ todo[n] = {}
  /\ changed[n]
  /\ requests' = [m \in Nodes |->
       IF m = n THEN {caller[n]}
       ELSE IF IsDeriv(m) /\ KeyOf(m) = KeyOf(n) THEN {}
       ELSE requests[m]]
  /\ Return(n, TRUE, TRUE)
  /\ UNCHANGED <<computed, stamp, time>>

KeepDerivative(n) ==
  /\ top = n
  /\ IsDeriv(n)
  /\ todo[n] = {}
  /\ ~changed[n]
  /\ requests' = [requests EXCEPT ![n] = @ \cup {caller[n]}]
  /\ Return(n, caller[n] \notin requests[n], FALSE)
  /\ UNCHANGED <<computed, stamp, time>>

-----------------------------------------------------------------------------
(* What the PKs and the driver do between two calls                        *)

\* Faulty: SetChanged leaves the request history.
SetChangedUncleared(p) ==
  /\ top = Idle
  /\ requests' = requests
  /\ used' = [x \in Requesters |-> used[x] \ {Value(p)}]
  /\ done' = {}
  /\ ret' = NoRet
  /\ UNCHANGED <<computed, stamp, time, caller, todo, changed, active, top>>

\* A PK writes a primary field and calls EvaluatorPrimary_::SetChanged.
SetChanged(p) ==
  /\ top = Idle
  /\ requests' = [requests EXCEPT ![Value(p)] = {}]
  /\ used' = [x \in Requesters |-> used[x] \ {Value(p)}]
  /\ done' = {}
  /\ ret' = NoRet
  /\ UNCHANGED <<computed, stamp, time, caller, todo, changed, active, top>>

\* The driver moves the clock, forward after a step or back after a failed one.
SetTime(t) ==
  /\ top = Idle
  /\ t # time
  /\ time' = t
  /\ done' = {}
  /\ ret' = NoRet
  /\ UNCHANGED <<requests, computed, stamp, caller, todo, changed, active, top, used>>

Evaluate(n) ==
  \/ UpdatePrimary(n)
  \/ UpdateIndependent(n)
  \/ KeepIndependent(n)
  \/ UpdateSecondary(n)
  \/ KeepSecondary(n)
  \/ UpdateDerivative(n)
  \/ KeepDerivative(n)

Step == \E n \in Nodes : Call(n) \/ Evaluate(n)

Environment ==
  \/ \E c \in Clients, n \in Nodes : Request(c, n)
  \/ \E p \in Primary : SetChanged(p)
  \/ \E t \in Times : SetTime(t)

Next == Step \/ Environment

Spec == Init /\ [][Next]_vars

\* The recursion runs in one thread and does not stop halfway.
FairSpec == Spec /\ WF_vars(Step)

-----------------------------------------------------------------------------
(* Properties                                                              *)

\* The data of n agree with what they were computed from.
Fresh(n) ==
  IF IsPrimary(n) THEN TRUE
  ELSE IF IsIndependent(n) THEN KeyOf(n) \in computed /\ ~OutOfDate(KeyOf(n))
  ELSE /\ Uses(n) \subseteq used[n]
       /\ IsSecondary(n) => KeyOf(n) \in computed

ClosedUnderCalls(D) == \A m \in D : Calls(m) \subseteq D

\* n and everything its evaluation reaches.
Cone == [n \in Nodes |-> {m \in Nodes :
           \A D \in SUBSET Nodes : n \in D /\ ClosedUnderCalls(D) => m \in D}]

\* When Update or UpdateDerivative returns to a PK, whatever it answers, the
\* field, and every field below it, are up to date: no evaluator kept data
\* older than a dependency, a SetChanged or the clock.
ReturnedDataAreCurrent ==
  ret # NoRet => \A m \in Cone[ret.node] : Fresh(m)

\* Update answers "not changed" to a PK only if the data are those the PK has
\* already used: a PK that skips its work on FALSE never misses a change.
FalseMeansUnchanged ==
  ret # NoRet /\ ~ret.answer => ret.node \in used[ret.client]

\* The converse for values: who has used the present data of a field is still
\* on its list of served requesters, so it is not told to recompute for
\* nothing.  (UpdateDerivative gives this up: it drops deriv_requests_ of
\* every wrt_key at once.)
ServedStaysServed ==
  \A r \in ClientReqs \cup ValueNodes, n \in ValueNodes :
    n \in used[r] => r \in requests[n]

\* Sharing in the graph costs nothing: a field reached along several paths of
\* one request is evaluated at most once while the request is served.
EvaluatedOncePerCall ==
  [][\A n \in done :
       ~(UpdateIndependent(n) \/ UpdateSecondary(n) \/ UpdateDerivative(n))]_vars

\* Every outermost call comes back.
EveryCallReturns == (top # Idle) ~> (top = Idle)

-----------------------------------------------------------------------------
(* The inductive invariant behind the safety properties.  Calling is about  *)
(* the recursion and the lists of served requesters alone: it survives an   *)
(* evaluation that fails (EvaluatorRecovery).                               *)

NRank(n) == IF IsDeriv(n) THEN 2 * Rank[KeyOf(n)] + 1 ELSE 2 * Rank[KeyOf(n)]

\* The frames form one stack whose ranks decrease towards the top.
Stack ==
  /\ top = Idle <=> active = {}
  /\ top # Idle => top \in active
  /\ \A n \in active :
       /\ NRank(top) <= NRank(n)
       /\ todo[n] \subseteq Calls(n)
       /\ \/ caller[n] \in active /\ n \in Calls(caller[n])
          \/ caller[n] \in ClientReqs
       /\ \A m \in active :
            \/ m = n
            \/ NRank(m) < NRank(n)
            \/ caller[n] \in Nodes /\ NRank(caller[n]) <= NRank(m)

\* One request differentiates with respect to one key.
OneWrt == \A m, n \in done \cup active : IsDeriv(m) /\ IsDeriv(n) => m[2] = n[2]

\* A node uses what it reads and no more, and a derivative that has used its
\* own value has used what the value did.
DerivUsesValue ==
  /\ \A n \in Nodes : used[n] \subseteq Uses(n)
  /\ \A n \in DerivNodes :
       Value(KeyOf(n)) \in used[n] => used[Value(KeyOf(n))] \subseteq used[n]

\* An independent evaluator that never ran has served nobody.
NewServedNobody == \A i \in Independent : i \notin computed => requests[Value(i)] = {}

\* What has been served in this request has been computed, has asked all that
\* it depends on, and has nothing more to do.
DoneIsServed ==
  \A m \in done :
    /\ IsIndependent(m) => KeyOf(m) \in computed /\ ~OutOfDate(KeyOf(m))
    /\ IsSecondary(m) => KeyOf(m) \in computed
    /\ Calls(m) \subseteq done
    /\ \A n \in Calls(m) : m \in requests[n]
    /\ m \in active => ~changed[m]

\* Of the calls a frame has to make, each one is still to come, under way, or
\* done.
Progress ==
  \A m \in active : \A n \in Calls(m) :
    \/ n \in todo[m]
    \/ n \in active /\ caller[n] = m
    \/ n \in done /\ m \in requests[n]

RetIsDone == ret # NoRet => ret.node \in done /\ ret.client \in requests[ret.node]

Calling ==
  /\ TypeOK
  /\ Stack
  /\ OneWrt
  /\ DerivUsesValue
  /\ NewServedNobody
  /\ DoneIsServed
  /\ Progress
  /\ RetIsDone

\* A requester on the list of n has used the present data of n, or knows that
\* it has to evaluate.
ServedHasUsed ==
  /\ \A r \in ClientReqs : \A n \in Nodes : r \in requests[n] => n \in used[r]
  /\ \A m \in Nodes : \A n \in Calls(m) :
       m \in requests[n] => n \in used[m] \/ (m \in active /\ changed[m])

\* What has been served in this request is up to date, and stays so.
DoneIsFresh == \A m \in done : Fresh(m)

IInv == Calling /\ ServedHasUsed /\ DoneIsFresh
=============================================================================
