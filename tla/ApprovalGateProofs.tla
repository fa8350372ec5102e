------------------------- MODULE ApprovalGateProofs -------------------------
(***************************************************************************)
(* Proofs about ApprovalGate, for any callers, identities, timeouts, TTLs  *)
(* and bounds.  The safety invariants of the gate are not inductive: they  *)
(* depend on what the files carry over a restart and on what the clock may *)
(* still let expire.  IInv adds that.                                      *)
(***************************************************************************)
EXTENDS ApprovalGate, TLAPS

\* Request ids are never reused, and a set of prompts has one per identity.
PromptsOK(S) ==
    /\ \A p \in S : p.id < nextId
    /\ \A p, q \in S : p.id = q.id => p = q
    /\ \A p, q \in S : p.key = q.key => p = q

PromptsInv == PromptsOK(pendingMap) /\ PromptsOK(file.pending)

\* The files exist only between a shutdown and the next boot, and a process that
\* is down has neither prompts nor waiters.
PhaseInv ==
    /\ proc = "up" => file = NoFile
    /\ proc = "down" =>
          /\ pendingMap = {} /\ shortIdIndex = {}
          /\ approvalCache = EmptyCache /\ denialCache = EmptyCache
          /\ batchFollowers = NoFollowers
          /\ \A c \in Caller : ~IsWaiting(c)

\* An entry that expires at e stands for the last decision on k.
Stands(k, e) ==
    now < e => ruling[k].verdict = "approved" /\ e = ruling[k].at + ApprovalTtl

\* The entry that counts is the gate's while the process is up and the file's
\* from dispose() to the next boot.
CacheInv ==
    /\ \A k \in Key : approvalCache[k] <= now + ApprovalTtl
    /\ \A k \in Key : file.cache[k] <= now + ApprovalTtl
    /\ \A k \in Key \ late : proc = "up" => Stands(k, approvalCache[k])
    /\ \A k \in Key \ late : proc # "up" => Stands(k, file.cache[k])
    /\ \A k \in Key \ late : proc = "stopping" => approvalCache[k] = 0

\* Neither a prompt nor a prompt to be restored is about a decided identity.
DecidedInv ==
    /\ NoPromptWhileDecided
    /\ \A p \in file.pending : file.cache[p.key] <= now

IInv ==
    /\ TypeOK /\ PromptsInv /\ IndexMatchesPending /\ WaiterHasPrompt
    /\ PhaseInv /\ CacheInv /\ DecidedInv

-----------------------------------------------------------------------------
(* The initial state.                                                      *)

\* An empty gate with empty files.
LEMMA InitInv == Init => IInv
<1> SUFFICES ASSUME Init PROVE IInv
    OBVIOUS
<1> USE DEF Init, EmptyCache, NoFollowers, NoFile, NoRuling, Idle
<1>1. TypeOK
  BY DEF TypeOK
<1>2. PromptsInv
  BY DEF PromptsInv, PromptsOK
<1>3. IndexMatchesPending
  BY DEF IndexMatchesPending, IdsOf
<1>4. WaiterHasPrompt
  BY DEF WaiterHasPrompt, IsWaiting
<1>5. PhaseInv
  BY DEF PhaseInv
<1>6. CacheInv
  BY ApprovalAssumption DEF CacheInv, Stands
<1>7. DecidedInv
  BY DEF DecidedInv, NoPromptWhileDecided
<1> QED
  BY <1>1, <1>2, <1>3, <1>4, <1>5, <1>6, <1>7 DEF IInv

-----------------------------------------------------------------------------
(* Requests.                                                               *)

\* An answer without a prompt changes one caller that was not waiting.
LEMMA ToldInv ==
  ASSUME IInv, NEW cc \in Caller, NEW k \in Key, ~IsWaiting(cc),
         NEW approved \in BOOLEAN, NEW by \in ApprovedBy, Told(cc, k, approved, by)
  PROVE  IInv'
<1> USE DEF Told, gate, history
<1>1. TypeOK'
  BY DEF IInv, TypeOK, Answered
<1>2. PromptsInv'
  BY DEF IInv, PromptsInv, PromptsOK
<1>3. IndexMatchesPending'
  BY DEF IInv, IndexMatchesPending, IdsOf
<1>4. WaiterHasPrompt'
  BY DEF IInv, TypeOK, WaiterHasPrompt, IsWaiting
<1>5. PhaseInv'
  BY DEF IInv, TypeOK, PhaseInv, IsWaiting
<1>6. CacheInv'
  BY DEF IInv, CacheInv, Stands
<1>7. DecidedInv'
  BY DEF IInv, DecidedInv, NoPromptWhileDecided, Live
<1> QED
  BY <1>1, <1>2, <1>3, <1>4, <1>5, <1>6, <1>7 DEF IInv

\* A follower joins the one prompt of its identity.
LEMMA JoinInv ==
  ASSUME IInv, NEW cc \in Caller, NEW k \in Key, ~IsWaiting(cc), proc # "down",
         Join(cc, k)
  PROVE  IInv'
<1>0. PICK p \in pendingMap :
         /\ p.key = k
         /\ batchFollowers' = [batchFollowers EXCEPT ![k] = @ \union {cc}]
         /\ caller' = [caller EXCEPT ![cc] = [st |-> "following", key |-> k, id |-> p.id]]
         /\ UNCHANGED <<now, proc, pendingMap, shortIdIndex, approvalCache, denialCache,
                        file, nextId, restarts, history>>
  BY DEF Join, PromptOf
<1> USE DEF history
<1>1. TypeOK'
  BY <1>0 DEF IInv, TypeOK, Waiting, Prompt
<1>2. PromptsInv'
  BY <1>0 DEF IInv, PromptsInv, PromptsOK
<1>3. IndexMatchesPending'
  BY <1>0 DEF IInv, IndexMatchesPending, IdsOf
<1>4. WaiterHasPrompt'
  <2>1. ASSUME NEW d \in Caller
        PROVE  IsWaiting(d)' => \E q \in pendingMap' : q.id = caller'[d].id /\ q.key = caller'[d].key
    BY <1>0 DEF IInv, TypeOK, WaiterHasPrompt, IsWaiting
  <2>2. ASSUME NEW d \in Caller, NEW j \in Key
        PROVE  d \in batchFollowers'[j] <=> caller'[d].st = "following" /\ caller'[d].key = j
    BY <1>0 DEF IInv, TypeOK, WaiterHasPrompt, IsWaiting
  <2> QED
    BY <2>1, <2>2 DEF WaiterHasPrompt
<1>5. PhaseInv'
  BY <1>0 DEF IInv, PhaseInv
<1>6. CacheInv'
  BY <1>0 DEF IInv, CacheInv, Stands
<1>7. DecidedInv'
  BY <1>0 DEF IInv, DecidedInv, NoPromptWhileDecided, Live
<1> QED
  BY <1>1, <1>2, <1>3, <1>4, <1>5, <1>6, <1>7 DEF IInv

\* A new prompt: its identity has none, and no live decision.
LEMMA PromptOperatorInv ==
  ASSUME IInv, NEW cc \in Caller, NEW k \in Key, NEW t \in Timeouts, ~IsWaiting(cc),
         proc # "down", PromptOf(k) = {}, ~Live(approvalCache, k), ~Live(denialCache, k),
         PromptOperator(cc, k, t)
  PROVE  IInv'
<1> DEFINE new == [id |-> nextId, key |-> k, createdAt |-> now, timeoutMs |-> t]
<1>0. /\ nextId \in Id
      /\ pendingMap' = pendingMap \union {new}
      /\ shortIdIndex' = shortIdIndex \union {nextId}
      /\ nextId' = nextId + 1
      /\ caller' = [caller EXCEPT ![cc] = [st |-> "leading", key |-> k, id |-> nextId]]
      /\ UNCHANGED <<now, proc, approvalCache, denialCache, batchFollowers, file,
                     restarts, history>>
  BY DEF PromptOperator
<1>a. new.id = nextId /\ new.key = k /\ new \in Prompt
  BY <1>0, ApprovalAssumption DEF IInv, TypeOK, Prompt, Ticks
<1>b. \A p \in pendingMap : p.key # k
  BY DEF PromptOf
<1>c. \A p \in Prompt : p.id \in Nat
  BY ApprovalAssumption DEF Prompt, Id
<1>d. pendingMap \subseteq Prompt /\ file.pending \subseteq Prompt /\ nextId \in Nat
  BY DEF IInv, TypeOK
<1> HIDE DEF new
<1> USE DEF history
<1>1. TypeOK'
  BY <1>0, <1>a DEF IInv, TypeOK, Waiting
<1>2. PromptsInv'
  <2>1. PromptsOK(pendingMap)'
    BY <1>0, <1>a, <1>b, <1>c, <1>d DEF IInv, PromptsInv, PromptsOK
  <2>2. PromptsOK(file.pending)'
    BY <1>0, <1>c, <1>d DEF IInv, PromptsInv, PromptsOK
  <2> QED
    BY <2>1, <2>2 DEF PromptsInv
<1>3. IndexMatchesPending'
  BY <1>0, <1>a DEF IInv, IndexMatchesPending, IdsOf
<1>4. WaiterHasPrompt'
  <2>1. ASSUME NEW d \in Caller
        PROVE  IsWaiting(d)' => \E q \in pendingMap' : q.id = caller'[d].id /\ q.key = caller'[d].key
    BY <1>0, <1>a DEF IInv, TypeOK, WaiterHasPrompt, IsWaiting
  <2>2. ASSUME NEW d \in Caller, NEW j \in Key
        PROVE  d \in batchFollowers'[j] <=> caller'[d].st = "following" /\ caller'[d].key = j
    BY <1>0 DEF IInv, TypeOK, WaiterHasPrompt, IsWaiting
  <2> QED
    BY <2>1, <2>2 DEF WaiterHasPrompt
<1>5. PhaseInv'
  BY <1>0 DEF IInv, PhaseInv
<1>6. CacheInv'
  BY <1>0 DEF IInv, CacheInv, Stands
<1>7. DecidedInv'
  BY <1>0, <1>a DEF IInv, DecidedInv, NoPromptWhileDecided, Live
<1> QED
  BY <1>1, <1>2, <1>3, <1>4, <1>5, <1>6, <1>7 DEF IInv

\* Without a TTL no cached approval is ever live.
LEMMA NoTtlNotLive ==
  ASSUME IInv, NEW k \in Key, ~(ApprovalTtl > 0)
  PROVE  ~Live(approvalCache, k)
BY ApprovalAssumption DEF IInv, TypeOK, CacheInv, Live

\* requestApproval answers from the policy or a cache, joins a prompt, or opens one.
LEMMA RequestInv ==
  ASSUME IInv, NEW cc \in Caller, NEW k \in Key, NEW mode \in Mode,
         RequestApproval(cc, k, mode)
  PROVE  IInv'
<1>1. ~IsWaiting(cc) /\ proc # "down"
  BY DEF RequestApproval, Serving
<1>2. CASE mode # "require"
  <2>1. \/ Told(cc, k, FALSE, "system:invalid-request")
        \/ Told(cc, k, mode = "auto", "system:policy-rule")
    BY <1>2 DEF RequestApproval
  <2> QED
    BY <2>1, <1>1, ToldInv DEF ApprovedBy
<1>3. CASE mode = "require"
  <2>1. \/ Told(cc, k, TRUE, "system:cached-approval")
        \/ Told(cc, k, FALSE, "system:cached-denial")
        \/ Join(cc, k)
        \/ /\ PromptOf(k) = {} /\ ~Live(denialCache, k)
           /\ ~(ApprovalTtl > 0 /\ Live(approvalCache, k))
           /\ \E t \in Timeouts : PromptOperator(cc, k, t)
    BY <1>3 DEF RequestApproval
  <2>2. CASE Told(cc, k, TRUE, "system:cached-approval")
    BY <2>2, <1>1, ToldInv DEF ApprovedBy
  <2>3. CASE Told(cc, k, FALSE, "system:cached-denial")
    BY <2>3, <1>1, ToldInv DEF ApprovedBy
  <2>4. CASE Join(cc, k)
    BY <2>4, <1>1, JoinInv
  <2>5. CASE /\ PromptOf(k) = {} /\ ~Live(denialCache, k)
             /\ ~(ApprovalTtl > 0 /\ Live(approvalCache, k))
             /\ \E t \in Timeouts : PromptOperator(cc, k, t)
    BY <2>5, <1>1, NoTtlNotLive, PromptOperatorInv
  <2> QED
    BY <2>1, <2>2, <2>3, <2>4, <2>5
<1> QED
  BY <1>2, <1>3

-----------------------------------------------------------------------------
(* Resolutions.                                                            *)

\* Whom the resolution of S reaches.
Reached(S, d) ==
    \/ caller[d].st = "leading" /\ caller[d].id \in IdsOf(S)
    \/ \E k \in KeysOf(S) : d \in batchFollowers[k]

\* A resolution reaches exactly the callers that wait for one of its prompts,
\* and gives each the id of its own.
LEMMA ReachedWaits ==
  ASSUME IInv, NEW S \in SUBSET pendingMap, NEW d \in Caller
  PROVE  /\ Reached(S, d) => /\ IsWaiting(d)
                             /\ \E p \in S : p.id = caller[d].id /\ p.key = caller[d].key
                             /\ (CHOOSE p \in S : p.key = caller[d].key).id = caller[d].id
         /\ IsWaiting(d) /\ ~Reached(S, d) =>
                \E p \in pendingMap \ S : p.id = caller[d].id /\ p.key = caller[d].key
<1>1. IsWaiting(d) => \E p \in pendingMap : p.id = caller[d].id /\ p.key = caller[d].key
  BY DEF IInv, WaiterHasPrompt
<1>2. \A k \in Key : d \in batchFollowers[k] <=> caller[d].st = "following" /\ caller[d].key = k
  BY DEF IInv, WaiterHasPrompt
<1>3. \A p \in pendingMap : p.key \in Key
  BY DEF IInv, TypeOK, Prompt
<1>4. \A p, q \in pendingMap : (p.id = q.id => p = q) /\ (p.key = q.key => p = q)
  BY DEF IInv, PromptsInv, PromptsOK
<1>5. ASSUME Reached(S, d)
      PROVE  IsWaiting(d) /\ \E p \in S : p.id = caller[d].id /\ p.key = caller[d].key
  BY <1>1, <1>2, <1>3, <1>4, <1>5 DEF Reached, IsWaiting, IdsOf, KeysOf
<1>6. ASSUME Reached(S, d)
      PROVE  (CHOOSE p \in S : p.key = caller[d].key).id = caller[d].id
  <2>1. PICK p \in S : p.id = caller[d].id /\ p.key = caller[d].key
    BY <1>5, <1>6
  <2>2. \A q \in S : q.key = caller[d].key => q = p
    BY <2>1, <1>4
  <2> QED
    BY <2>1, <2>2
<1>7. ASSUME IsWaiting(d), ~Reached(S, d)
      PROVE  \E p \in pendingMap \ S : p.id = caller[d].id /\ p.key = caller[d].key
  BY <1>1, <1>2, <1>3, <1>7 DEF Reached, IsWaiting, IdsOf, KeysOf
<1> QED
  BY <1>5, <1>6, <1>7

\* What a caller is told.
AnswerOf(k, i, approved, by) ==
    [st |-> "answered", key |-> k, id |-> i, approved |-> approved, by |-> by]

\* The fields of an answer.
LEMMA AnswerFields ==
  ASSUME NEW k, NEW i, NEW a, NEW b
  PROVE  /\ AnswerOf(k, i, a, b).st = "answered"
         /\ AnswerOf(k, i, a, b).key = k
         /\ AnswerOf(k, i, a, b).id = i
         /\ AnswerOf(k, i, a, b).approved = a
         /\ AnswerOf(k, i, a, b).by = b
BY DEF AnswerOf

\* An answer is what a caller can hold.
LEMMA AnswerType ==
  ASSUME NEW k \in Key, NEW i \in Nat, NEW a \in BOOLEAN, NEW b \in ApprovedBy
  PROVE  AnswerOf(k, i, a, b) \in Answered
BY DEF AnswerOf, Answered

\* Deliver, with the id each caller is told spelled out.
LEMMA DeliverTells ==
  ASSUME IInv, NEW S \in SUBSET pendingMap, NEW a, NEW b, Deliver(S, a, b), NEW d \in Caller
  PROVE  /\ Reached(S, d) => /\ caller'[d] = AnswerOf(caller[d].key, caller[d].id, a, b)
                             /\ caller'[d].st = "answered"
                             /\ caller'[d].key = caller[d].key
                             /\ caller'[d].id = caller[d].id
                             /\ caller'[d].approved = a
         /\ ~Reached(S, d) => caller'[d] = caller[d]
<1> DEFINE i == (CHOOSE p \in S : p.key = caller[d].key).id
<1>1. Reached(S, d) => i = caller[d].id
  BY ReachedWaits
<1>2. caller'[d] = IF Reached(S, d) THEN AnswerOf(caller[d].key, i, a, b) ELSE caller[d]
  BY DEF Deliver, Reached, AnswerOf
<1> HIDE DEF i
<1> QED
  BY <1>1, <1>2, AnswerFields

\* A delivery keeps the type of what the callers know.
LEMMA DeliverType ==
  ASSUME IInv, NEW S \in SUBSET pendingMap, NEW a \in BOOLEAN, NEW b \in ApprovedBy,
         Deliver(S, a, b)
  PROVE  caller' \in [Caller -> {Idle} \union Waiting \union Answered]
<1>1. ASSUME NEW d \in Caller
      PROVE  caller'[d] \in {Idle} \union Waiting \union Answered
  <2>0. caller[d] \in {Idle} \union Waiting \union Answered
    BY DEF IInv, TypeOK
  <2>1. IsWaiting(d) => caller[d].key \in Key /\ caller[d].id \in Nat
    BY <2>0, ApprovalAssumption DEF IsWaiting, Waiting, Answered, Idle, Id
  <2>2. CASE Reached(S, d)
    BY <2>1, <2>2, DeliverTells, ReachedWaits, AnswerType
  <2>3. CASE ~Reached(S, d)
    BY <2>0, <2>3, DeliverTells
  <2> QED
    BY <2>2, <2>3
<1>2. caller' = [d \in Caller |-> caller'[d]]
  BY DEF Deliver
<1> QED
  BY <1>1, <1>2

\* resolveApproval of some prompts, by the operator or by a timeout.
LEMMA ResolveInv ==
  ASSUME IInv, NEW S \in SUBSET pendingMap, NEW approved \in BOOLEAN,
         NEW by \in {"operator", "system:timeout"}, proc # "down",
         approved => by = "operator", Resolve(S, approved, by)
  PROVE  IInv'
<1> DEFINE K == KeysOf(S)
<1>0. /\ pendingMap' = pendingMap \ S
      /\ shortIdIndex' = shortIdIndex \ IdsOf(S)
      /\ batchFollowers' = [k \in Key |-> IF k \in K THEN {} ELSE batchFollowers[k]]
      /\ UNCHANGED <<now, proc, file, nextId, restarts>>
  BY DEF Resolve
<1>a. \A d \in Caller : caller'[d] =
          IF Reached(S, d) THEN AnswerOf(caller[d].key, caller[d].id, approved, by)
          ELSE caller[d]
  BY DeliverTells DEF Resolve
<1>b. \A k \in Key :
        /\ approvalCache'[k] = IF k \notin K THEN approvalCache[k]
                               ELSE IF approved
                               THEN IF ApprovalTtl > 0 THEN now + ApprovalTtl
                                    ELSE approvalCache[k]
                               ELSE 0
        /\ denialCache'[k] = IF k \notin K THEN denialCache[k]
                             ELSE IF approved THEN 0
                             ELSE IF by = "operator" THEN now + DenialTtl
                             ELSE denialCache[k]
  BY DEF Resolve, CacheDecision
<1>c. \A k \in Key : ruling'[k] =
          IF k \notin K THEN ruling[k]
          ELSE IF by = "system:timeout" THEN NoRuling
          ELSE [verdict |-> IF approved THEN "approved" ELSE "denied", at |-> now]
  BY DEF Resolve
<1>d. late' = IF proc = "up" THEN late \ K ELSE late \union K
  BY DEF Resolve
<1>e. \A p \in pendingMap : p.key \in Key /\ (p.key \in K => p \in S)
  BY DEF IInv, TypeOK, Prompt, PromptsInv, PromptsOK, KeysOf
<1>f. K \subseteq Key /\ now \in Nat /\ ApprovalTtl \in Nat /\ DenialTtl \in Nat
  BY <1>e, ApprovalAssumption DEF KeysOf, IInv, TypeOK
<1> HIDE DEF K
<1>1. TypeOK'
  <2>1. caller' \in [Caller -> {Idle} \union Waiting \union Answered]
    BY DeliverType DEF Resolve, ApprovedBy
  <2>2. approvalCache' \in [Key -> Nat] /\ denialCache' \in [Key -> Nat]
    BY <1>f DEF Resolve, CacheDecision, IInv, TypeOK
  <2>3. ruling' \in [Key -> [verdict : {"none", "approved", "denied"}, at : Nat]]
    BY <1>f DEF Resolve, IInv, TypeOK, NoRuling
  <2> QED
    BY <1>0, <1>d, <1>f, <2>1, <2>2, <2>3 DEF IInv, TypeOK
<1>2. PromptsInv'
  BY <1>0 DEF IInv, PromptsInv, PromptsOK
<1>3. IndexMatchesPending'
  BY <1>0 DEF IInv, IndexMatchesPending, IdsOf, PromptsInv, PromptsOK
<1>4. WaiterHasPrompt'
  <2>1. ASSUME NEW d \in Caller
        PROVE  IsWaiting(d)' => \E q \in pendingMap' : q.id = caller'[d].id /\ q.key = caller'[d].key
    BY <1>0, <1>a, ReachedWaits, AnswerFields DEF IsWaiting
  <2>2. ASSUME NEW d \in Caller, NEW j \in Key
        PROVE  d \in batchFollowers'[j] <=> caller'[d].st = "following" /\ caller'[d].key = j
    <3>1. d \in batchFollowers[j] <=> caller[d].st = "following" /\ caller[d].key = j
      BY DEF IInv, WaiterHasPrompt
    <3>2. CASE Reached(S, d)
      <4>1. caller'[d].st = "answered"
        BY <1>a, <3>2, AnswerFields
      <4>2. caller[d].st = "following" => caller[d].key \in K
        BY <3>2, ReachedWaits DEF K, KeysOf
      <4> QED
        BY <1>0, <3>1, <4>1, <4>2
    <3>3. CASE ~Reached(S, d)
      <4>1. caller'[d] = caller[d] /\ (j \in K => d \notin batchFollowers[j])
        BY <1>a, <3>3 DEF Reached, K
      <4> QED
        BY <1>0, <3>1, <4>1
    <3> QED
      BY <3>2, <3>3
  <2> QED
    BY <2>1, <2>2 DEF WaiterHasPrompt
<1>5. PhaseInv'
  BY <1>0 DEF IInv, PhaseInv
<1>6. CacheInv'
  <2>1. \A k \in Key : approvalCache'[k] <= now' + ApprovalTtl
    BY <1>0, <1>b, <1>f DEF IInv, TypeOK, CacheInv
  <2>2. \A k \in Key : file'.cache[k] <= now' + ApprovalTtl
    BY <1>0 DEF IInv, CacheInv
  <2>3. ASSUME NEW k \in Key \ late', proc' = "up"
        PROVE  Stands(k, approvalCache[k])'
    <3>1. CASE k \in K
      <4>1. now < approvalCache'[k] => approved /\ approvalCache'[k] = now + ApprovalTtl
        BY <3>1, <1>b, <1>f DEF IInv, TypeOK, CacheInv
      <4>2. approved => ruling'[k].verdict = "approved" /\ ruling'[k].at = now
        BY <3>1, <1>c
      <4> QED
        BY <4>1, <4>2, <1>0 DEF Stands
    <3>2. CASE k \notin K
      <4>1. k \notin late /\ proc = "up" /\ approvalCache'[k] = approvalCache[k]
            /\ ruling'[k] = ruling[k] /\ now' = now
        BY <3>2, <2>3, <1>0, <1>b, <1>c, <1>d
      <4>2. Stands(k, approvalCache[k])
        BY <4>1 DEF IInv, CacheInv
      <4> QED
        BY <4>1, <4>2 DEF Stands
    <3> QED
      BY <3>1, <3>2
  <2>4. ASSUME NEW k \in Key \ late', proc' # "up"
        PROVE  Stands(k, file.cache[k])' /\ (proc' = "stopping" => approvalCache'[k] = 0)
    <3>1. /\ k \notin late /\ k \notin K /\ proc # "up" /\ ruling'[k] = ruling[k]
          /\ approvalCache'[k] = approvalCache[k]
      BY <2>4, <1>0, <1>b, <1>c, <1>d
    <3> QED
      BY <3>1, <1>0 DEF IInv, CacheInv, Stands
  <2> QED
    BY <2>1, <2>2, <2>3, <2>4 DEF CacheInv
<1>7. DecidedInv'
  <2>1. \A p \in pendingMap' : p.key \in Key /\ p.key \notin K
    BY <1>0, <1>e
  <2>2. NoPromptWhileDecided'
    BY <2>1, <1>0, <1>b DEF IInv, DecidedInv, NoPromptWhileDecided, Live
  <2> QED
    BY <2>2, <1>0 DEF IInv, DecidedInv
<1> QED
  BY <1>1, <1>2, <1>3, <1>4, <1>5, <1>6, <1>7 DEF IInv

-----------------------------------------------------------------------------
(* The clears.                                                             *)

\* Denials of a conversation are forgotten.
LEMMA ClearDenialCacheInv ==
  ASSUME IInv, NEW conv, ClearDenialCache(conv)
  PROVE  IInv'
<1>0. /\ proc # "down"
      /\ \A k \in Key : denialCache'[k] = IF k \in KeysIn(conv) THEN 0 ELSE denialCache[k]
      /\ UNCHANGED <<now, proc, pendingMap, shortIdIndex, approvalCache, batchFollowers,
                     caller, file, nextId, restarts, history>>
  BY DEF ClearDenialCache, Serving
<1> USE DEF history
<1>1. TypeOK'
  <2>1. denialCache' \in [Key -> Nat]
    BY DEF ClearDenialCache, IInv, TypeOK
  <2> QED
    BY <2>1, <1>0 DEF IInv, TypeOK
<1>2. PromptsInv' /\ IndexMatchesPending' /\ WaiterHasPrompt'
  BY <1>0 DEF IInv, PromptsInv, PromptsOK, IndexMatchesPending, WaiterHasPrompt, IsWaiting, IdsOf
<1>3. PhaseInv'
  BY <1>0 DEF IInv, PhaseInv
<1>4. CacheInv'
  BY <1>0 DEF IInv, CacheInv, Stands
<1>5. DecidedInv'
  <2>1. \A p \in pendingMap : p.key \in Key
    BY DEF IInv, TypeOK, Prompt
  <2> QED
    BY <1>0, <2>1 DEF IInv, TypeOK, DecidedInv, NoPromptWhileDecided, Live
<1> QED
  BY <1>1, <1>2, <1>3, <1>4, <1>5 DEF IInv

\* Approvals of a conversation are forgotten.
LEMMA ClearApprovalCacheInv ==
  ASSUME IInv, NEW conv, ClearApprovalCache(conv)
  PROVE  IInv'
<1> DEFINE K == KeysIn(conv)
<1>0. /\ proc # "down"
      /\ \A k \in Key : approvalCache'[k] = IF k \in K THEN 0 ELSE approvalCache[k]
      /\ \A k \in Key : ruling'[k] = IF k \in K THEN NoRuling ELSE ruling[k]
      /\ late' = IF proc = "up" THEN late \ K ELSE late \union K
      /\ K \subseteq Key
      /\ UNCHANGED <<now, proc, pendingMap, shortIdIndex, denialCache, batchFollowers,
                     caller, file, nextId, restarts>>
  BY DEF ClearApprovalCache, Serving, KeysIn
<1>a. now \in Nat /\ ApprovalTtl \in Nat
  BY ApprovalAssumption DEF IInv, TypeOK
<1>1. TypeOK'
  <2>1. approvalCache' \in [Key -> Nat]
    BY DEF ClearApprovalCache, IInv, TypeOK
  <2>2. ruling' \in [Key -> [verdict : {"none", "approved", "denied"}, at : Nat]]
    BY DEF ClearApprovalCache, IInv, TypeOK, NoRuling
  <2> HIDE DEF K
  <2> QED
    BY <2>1, <2>2, <1>0 DEF IInv, TypeOK
<1> HIDE DEF K
<1>2. PromptsInv' /\ IndexMatchesPending' /\ WaiterHasPrompt'
  BY <1>0 DEF IInv, PromptsInv, PromptsOK, IndexMatchesPending, WaiterHasPrompt, IsWaiting, IdsOf
<1>3. PhaseInv'
  BY <1>0 DEF IInv, PhaseInv
<1>4. CacheInv'
  <2>1. \A k \in Key : approvalCache'[k] <= now' + ApprovalTtl
    BY <1>0, <1>a DEF IInv, CacheInv
  <2>2. \A k \in Key : file'.cache[k] <= now' + ApprovalTtl
    BY <1>0 DEF IInv, CacheInv
  <2>3. ASSUME NEW k \in Key \ late', proc' = "up"
        PROVE  Stands(k, approvalCache[k])'
    BY <2>3, <1>0, <1>a DEF IInv, CacheInv, Stands
  <2>4. ASSUME NEW k \in Key \ late', proc' # "up"
        PROVE  Stands(k, file.cache[k])' /\ (proc' = "stopping" => approvalCache'[k] = 0)
    BY <2>4, <1>0 DEF IInv, CacheInv, Stands
  <2> QED
    BY <2>1, <2>2, <2>3, <2>4 DEF CacheInv
<1>5. DecidedInv'
  <2>1. \A p \in pendingMap : p.key \in Key
    BY DEF IInv, TypeOK, Prompt
  <2> QED
    BY <1>0, <1>a, <2>1 DEF IInv, DecidedInv, NoPromptWhileDecided, Live
<1> QED
  BY <1>1, <1>2, <1>3, <1>4, <1>5 DEF IInv

-----------------------------------------------------------------------------
(* From one process to the next.                                           *)

\* dispose() reaches every waiter; the files take over what stands.
LEMMA ShutdownInv ==
  ASSUME IInv, NEW wp \in BOOLEAN, NEW wc \in BOOLEAN, Shutdown(wp, wc)
  PROVE  IInv'
<1>0. /\ proc = "up" /\ proc' = "stopping"
      /\ pendingMap' = {} /\ shortIdIndex' = {}
      /\ approvalCache' = EmptyCache /\ denialCache' = EmptyCache
      /\ batchFollowers' = NoFollowers
      /\ UNCHANGED <<now, nextId, restarts, history>>
  BY DEF Shutdown
<1>a. /\ file'.pending \subseteq pendingMap
      /\ \A k \in Key : file'.cache[k] = 0 \/ file'.cache[k] = approvalCache[k]
      /\ file' \in [pending : SUBSET Prompt, cache : [Key -> Nat]]
  <2>1. /\ file'.pending = IF wp THEN pendingMap ELSE {}
        /\ file'.cache = IF wc THEN SerializedCache ELSE EmptyCache
    BY DEF Shutdown
  <2>2. /\ \A k \in Key : SerializedCache[k] = 0 \/ SerializedCache[k] = approvalCache[k]
        /\ SerializedCache \in [Key -> Nat]
    BY DEF SerializedCache, IInv, TypeOK
  <2>3. file'.pending \subseteq pendingMap
    BY <2>1
  <2>4. \A k \in Key : file'.cache[k] = 0 \/ file'.cache[k] = approvalCache[k]
    BY <2>1, <2>2 DEF EmptyCache
  <2>5. file'.pending \in SUBSET Prompt /\ file'.cache \in [Key -> Nat]
    BY <2>1, <2>2, <2>3 DEF EmptyCache, IInv, TypeOK
  <2>6. file' = [pending |-> file'.pending, cache |-> file'.cache]
    BY DEF Shutdown
  <2> QED
    BY <2>3, <2>4, <2>5, <2>6
<1>b. \A d \in Caller : IF Reached(pendingMap, d) THEN caller'[d].st = "answered"
                       ELSE caller'[d] = caller[d]
  BY DeliverTells DEF Shutdown
<1>c. \A d \in Caller : IsWaiting(d) <=> Reached(pendingMap, d)
  BY ReachedWaits
<1>d. now \in Nat /\ ApprovalTtl \in Nat
  BY ApprovalAssumption DEF IInv, TypeOK
<1>e. ASSUME NEW d \in Caller PROVE ~IsWaiting(d)'
  <2>1. CASE Reached(pendingMap, d)
    <3>1. caller'[d].st = "answered"
      BY <1>b, <2>1
    <3> QED
      BY <3>1 DEF IsWaiting
  <2>2. CASE ~Reached(pendingMap, d)
    BY <1>b, <1>c, <2>2 DEF IsWaiting
  <2> QED
    BY <2>1, <2>2
<1> USE DEF history
<1>1. TypeOK'
  <2>1. caller' \in [Caller -> {Idle} \union Waiting \union Answered]
    BY DeliverType DEF Shutdown, ApprovedBy
  <2> QED
    BY <2>1, <1>0, <1>a DEF IInv, TypeOK, EmptyCache, NoFollowers
<1>2. PromptsInv'
  BY <1>0, <1>a DEF IInv, PromptsInv, PromptsOK
<1>3. IndexMatchesPending'
  BY <1>0 DEF IndexMatchesPending, IdsOf
<1>4. WaiterHasPrompt'
  BY <1>0, <1>e DEF WaiterHasPrompt, IsWaiting, NoFollowers
<1>5. PhaseInv'
  BY <1>0 DEF PhaseInv
<1>6. CacheInv'
  <2>1. \A k \in Key : approvalCache'[k] = 0
    BY <1>0 DEF EmptyCache
  <2>2. \A k \in Key : file'.cache[k] <= now' + ApprovalTtl
    BY <1>0, <1>a, <1>d DEF IInv, CacheInv
  <2>3. ASSUME NEW k \in Key \ late'
        PROVE  Stands(k, file.cache[k])'
    BY <2>3, <1>0, <1>a, <1>d DEF IInv, CacheInv, Stands
  <2> QED
    BY <2>1, <2>2, <2>3, <1>0, <1>d DEF CacheInv
<1>7. DecidedInv'
  <2>1. \A p \in pendingMap : p.key \in Key /\ ~(now < approvalCache[p.key])
    BY DEF IInv, TypeOK, Prompt, DecidedInv, NoPromptWhileDecided, Live
  <2>2. \A p \in file'.pending : file'.cache[p.key] <= now
    BY <2>1, <1>a, <1>d DEF IInv, TypeOK
  <2> QED
    BY <2>2, <1>0 DEF DecidedInv, NoPromptWhileDecided
<1> QED
  BY <1>1, <1>2, <1>3, <1>4, <1>5, <1>6, <1>7 DEF IInv

\* The memory is gone; what the files hold is still true.
LEMMA ExitInv ==
  ASSUME IInv, Exit
  PROVE  IInv'
<1>0. /\ proc # "down" /\ proc' = "down"
      /\ pendingMap' = {} /\ shortIdIndex' = {}
      /\ approvalCache' = EmptyCache /\ denialCache' = EmptyCache
      /\ batchFollowers' = NoFollowers
      /\ caller' = [c \in Caller |-> Idle]
      /\ UNCHANGED <<now, file, nextId, restarts, history>>
  BY DEF Exit
<1>a. \A d \in Caller : caller'[d].st = "idle"
  BY <1>0 DEF Idle
<1>b. now \in Nat /\ ApprovalTtl \in Nat /\ \A k \in Key : approvalCache'[k] = 0
  BY <1>0, ApprovalAssumption DEF IInv, TypeOK, EmptyCache
<1> USE DEF history
<1>1. TypeOK'
  BY <1>0 DEF IInv, TypeOK, EmptyCache, NoFollowers
<1>2. PromptsInv'
  BY <1>0 DEF IInv, PromptsInv, PromptsOK
<1>3. IndexMatchesPending'
  BY <1>0 DEF IndexMatchesPending, IdsOf
<1>4. WaiterHasPrompt'
  BY <1>0, <1>a DEF WaiterHasPrompt, IsWaiting, NoFollowers
<1>5. PhaseInv'
  BY <1>0, <1>a DEF PhaseInv, IsWaiting
<1>6. CacheInv'
  <2>1. \A k \in Key \ late : proc = "up" => file.cache[k] = 0
    BY DEF IInv, PhaseInv, NoFile, EmptyCache
  <2>2. \A k \in Key \ late : Stands(k, file.cache[k])
    BY <2>1, <1>0, <1>b DEF IInv, CacheInv, Stands
  <2>3. \A k \in Key : file.cache[k] <= now + ApprovalTtl
    BY DEF IInv, CacheInv
  <2> QED
    BY <2>2, <2>3, <1>0, <1>b DEF CacheInv, Stands
<1>7. DecidedInv'
  BY <1>0 DEF IInv, DecidedInv, NoPromptWhileDecided
<1> QED
  BY <1>1, <1>2, <1>3, <1>4, <1>5, <1>6, <1>7 DEF IInv

\* What the next process restores: prompts nobody waits for yet, and the
\* cached approvals that still stand.
LEMMA BootInv ==
  ASSUME IInv, Boot
  PROVE  IInv'
<1>0. /\ proc = "down" /\ proc' = "up"
      /\ restarts' = restarts + 1
      /\ pendingMap' = RestorePending
      /\ shortIdIndex' = IdsOf(RestorePending)
      /\ approvalCache' = RestoreApprovalCache
      /\ file' = NoFile
      /\ UNCHANGED <<now, denialCache, batchFollowers, caller, nextId, history>>
  BY DEF Boot
<1>a. RestorePending \subseteq file.pending /\ file.pending \subseteq Prompt
  BY DEF RestorePending, IInv, TypeOK
<1>b. /\ approvalCache' \in [Key -> Nat]
      /\ \A k \in Key : approvalCache'[k] = IF file.cache[k] > now THEN file.cache[k] ELSE 0
  BY <1>0 DEF RestoreApprovalCache, IInv, TypeOK
<1>c. /\ batchFollowers = NoFollowers /\ denialCache = EmptyCache
      /\ \A c \in Caller : ~IsWaiting(c)
  BY <1>0 DEF IInv, PhaseInv
<1>d. now \in Nat /\ ApprovalTtl \in Nat
  BY ApprovalAssumption DEF IInv, TypeOK
<1>e. file'.pending = {} /\ \A k \in Key : file'.cache[k] = 0
  BY <1>0 DEF NoFile, EmptyCache
<1> USE DEF history
<1>1. TypeOK'
  <2>1. pendingMap' \subseteq Prompt /\ shortIdIndex' \subseteq Id
    BY <1>0, <1>a DEF IdsOf, Prompt
  <2>2. file' \in [pending : SUBSET Prompt, cache : [Key -> Nat]]
    BY <1>0 DEF NoFile, EmptyCache
  <2> QED
    BY <2>1, <2>2, <1>0, <1>b DEF IInv, TypeOK
<1>2. PromptsInv'
  BY <1>0, <1>a, <1>e DEF IInv, PromptsInv, PromptsOK
<1>3. IndexMatchesPending'
  BY <1>0 DEF IndexMatchesPending, IdsOf
<1>4. WaiterHasPrompt'
  BY <1>0, <1>c DEF WaiterHasPrompt, IsWaiting, NoFollowers
<1>5. PhaseInv'
  BY <1>0 DEF PhaseInv
<1>6. CacheInv'
  <2>1. \A k \in Key : approvalCache'[k] <= now' + ApprovalTtl
    BY <1>0, <1>b, <1>d DEF IInv, TypeOK, CacheInv
  <2>2. ASSUME NEW k \in Key \ late'
        PROVE  Stands(k, approvalCache[k])'
    BY <1>0, <1>b, <1>d DEF IInv, TypeOK, CacheInv, Stands
  <2> QED
    BY <2>1, <2>2, <1>0, <1>d, <1>e DEF CacheInv
<1>7. DecidedInv'
  <2>1. \A p \in file.pending : p.key \in Key /\ file.cache[p.key] <= now
    BY <1>a DEF Prompt, IInv, DecidedInv
  <2>2. \A p \in pendingMap' : approvalCache'[p.key] = 0 /\ denialCache'[p.key] = 0
    BY <2>1, <1>0, <1>a, <1>b, <1>c, <1>d DEF EmptyCache, IInv, TypeOK
  <2> QED
    BY <2>2, <1>0, <1>d, <1>e DEF DecidedInv, NoPromptWhileDecided, Live
<1> QED
  BY <1>1, <1>2, <1>3, <1>4, <1>5, <1>6, <1>7 DEF IInv

\* Time passes: entries expire, and a decision in force only goes out of force.
LEMMA TickInv ==
  ASSUME IInv, Tick
  PROVE  IInv'
<1>0. /\ now' = now + 1
      /\ UNCHANGED <<proc, gate, caller, file, nextId, restarts, history>>
  BY DEF Tick
<1>a. /\ now \in Nat /\ ApprovalTtl \in Nat
      /\ \A k \in Key : approvalCache[k] \in Nat /\ denialCache[k] \in Nat /\ file.cache[k] \in Nat
      /\ \A p \in pendingMap : p.key \in Key
      /\ \A p \in file.pending : p.key \in Key
  BY ApprovalAssumption DEF IInv, TypeOK, Prompt
<1> USE DEF gate, history
<1>1. TypeOK'
  BY <1>0 DEF IInv, TypeOK
<1>2. PromptsInv' /\ IndexMatchesPending' /\ WaiterHasPrompt' /\ PhaseInv'
  BY <1>0 DEF IInv, PromptsInv, PromptsOK, IndexMatchesPending, WaiterHasPrompt, IsWaiting,
     IdsOf, PhaseInv
<1>3. CacheInv'
  BY <1>0, <1>a DEF IInv, CacheInv, Stands
<1>4. DecidedInv'
  BY <1>0, <1>a DEF IInv, DecidedInv, NoPromptWhileDecided, Live
<1> QED
  BY <1>1, <1>2, <1>3, <1>4 DEF IInv

-----------------------------------------------------------------------------
(* Every step.                                                             *)

\* A step that resolves prompts, with the prompts and the verdict it gives.
LEMMA ResolutionSteps ==
  ASSUME IInv,
         \/ \E p \in pendingMap, approved \in BOOLEAN : Answer(p, approved)
         \/ \E conv \in Conversation, approved \in BOOLEAN : AnswerAll(conv, approved)
         \/ \E p \in pendingMap : Timeout(p)
  PROVE  /\ proc # "down"
         /\ \E S \in SUBSET pendingMap, approved \in BOOLEAN, by \in {"operator", "system:timeout"} :
               (approved => by = "operator") /\ Resolve(S, approved, by)
<1>1. CASE \E p \in pendingMap, approved \in BOOLEAN : Answer(p, approved)
  <2>1. PICK p \in pendingMap, approved \in BOOLEAN : Answer(p, approved)
    BY <1>1
  <2>2. {p} \in SUBSET pendingMap /\ proc # "down" /\ Resolve({p}, approved, "operator")
    BY <2>1 DEF Answer, Serving
  <2> QED
    BY <2>2
<1>2. CASE \E conv \in Conversation, approved \in BOOLEAN : AnswerAll(conv, approved)
  <2>1. PICK conv \in Conversation, approved \in BOOLEAN : AnswerAll(conv, approved)
    BY <1>2
  <2> DEFINE S == {p \in pendingMap : ConversationOf[p.key] = conv}
  <2>2. S \in SUBSET pendingMap /\ proc # "down" /\ Resolve(S, approved, "operator")
    BY <2>1 DEF AnswerAll, Serving
  <2> HIDE DEF S
  <2> QED
    BY <2>2
<1>3. CASE \E p \in pendingMap : Timeout(p)
  <2>1. PICK p \in pendingMap : Timeout(p)
    BY <1>3
  <2>2. {p} \in SUBSET pendingMap /\ proc # "down" /\ Resolve({p}, FALSE, "system:timeout")
    BY <2>1 DEF Timeout, Serving
  <2> QED
    BY <2>2
<1> QED
  BY <1>1, <1>2, <1>3

\* Every step keeps the invariant.
LEMMA NextInv == IInv /\ [Next]_vars => IInv'
<1> SUFFICES ASSUME IInv, [Next]_vars PROVE IInv'
    OBVIOUS
<1>1. CASE \E c \in Caller, k \in Key, mode \in Mode : RequestApproval(c, k, mode)
  BY <1>1, RequestInv
<1>2. CASE \/ \E p \in pendingMap, approved \in BOOLEAN : Answer(p, approved)
           \/ \E conv \in Conversation, approved \in BOOLEAN : AnswerAll(conv, approved)
           \/ \E p \in pendingMap : Timeout(p)
  BY <1>2, ResolutionSteps, ResolveInv
<1>3. CASE \E conv \in Conversation : ClearDenialCache(conv) \/ ClearApprovalCache(conv)
  BY <1>3, ClearDenialCacheInv, ClearApprovalCacheInv
<1>4. CASE \E wp, wc \in BOOLEAN : Shutdown(wp, wc)
  BY <1>4, ShutdownInv
<1>5. CASE Exit
  BY <1>5, ExitInv
<1>6. CASE Boot
  BY <1>6, BootInv
<1>7. CASE Tick
  BY <1>7, TickInv
<1>8. CASE UNCHANGED vars
  <2>1. TypeOK'
    BY <1>8 DEF vars, history, IInv, TypeOK
  <2>2. PromptsInv' /\ IndexMatchesPending' /\ WaiterHasPrompt' /\ PhaseInv'
    BY <1>8 DEF vars, history, IInv, PromptsInv, PromptsOK, IndexMatchesPending,
       WaiterHasPrompt, IsWaiting, IdsOf, PhaseInv
  <2>3. CacheInv' /\ DecidedInv'
    BY <1>8 DEF vars, history, IInv, CacheInv, Stands, DecidedInv, NoPromptWhileDecided, Live
  <2> QED
    BY <2>1, <2>2, <2>3 DEF IInv
<1> QED
  BY <1>1, <1>2, <1>3, <1>4, <1>5, <1>6, <1>7, <1>8 DEF Next

\* So it holds always.
LEMMA SpecInv == Spec => []IInv
<1>1. Init => IInv
  BY InitInv
<1>2. IInv /\ [Next]_vars => IInv'
  BY NextInv
<1> QED
  BY <1>1, <1>2, PTL DEF Spec

-----------------------------------------------------------------------------
(* What no step may do.                                                    *)

\* No step answers a caller from the prompt of another.
LEMMA NextOwnPrompt == IInv /\ [Next]_vars => [OwnPromptStep]_vars
<1> SUFFICES ASSUME IInv, Next, NEW d \in Caller, IsWaiting(d), caller'[d] # caller[d]
             PROVE  \/ caller'[d] = Idle
                    \/ caller'[d].st = "answered" /\ caller'[d].id = caller[d].id
                         /\ caller'[d].key = caller[d].key
    BY DEF OwnPromptStep
<1>1. CASE \E c \in Caller, k \in Key, mode \in Mode : RequestApproval(c, k, mode)
  <2>1. PICK c \in Caller, k \in Key, mode \in Mode : RequestApproval(c, k, mode)
    BY <1>1
  <2>2. c # d
    BY <2>1 DEF RequestApproval
  <2>3. \E r : caller' = [caller EXCEPT ![c] = r]
    BY <2>1 DEF RequestApproval, Told, Join, PromptOperator
  <2> QED
    BY <2>2, <2>3 DEF IInv, TypeOK
<1>2. CASE \/ \E p \in pendingMap, approved \in BOOLEAN : Answer(p, approved)
           \/ \E conv \in Conversation, approved \in BOOLEAN : AnswerAll(conv, approved)
           \/ \E p \in pendingMap : Timeout(p)
  <2>1. PICK S \in SUBSET pendingMap, approved \in BOOLEAN, by \in {"operator", "system:timeout"} :
               Resolve(S, approved, by)
    BY <1>2, ResolutionSteps
  <2> QED
    BY <2>1, DeliverTells DEF Resolve
<1>3. CASE \E conv \in Conversation : ClearDenialCache(conv) \/ ClearApprovalCache(conv)
  BY <1>3 DEF ClearDenialCache, ClearApprovalCache
<1>4. CASE \E wp, wc \in BOOLEAN : Shutdown(wp, wc)
  BY <1>4, DeliverTells DEF Shutdown
<1>5. CASE Exit
  BY <1>5 DEF Exit
<1>6. CASE Boot \/ Tick
  BY <1>6 DEF Boot, Tick
<1> QED
  BY <1>1, <1>2, <1>3, <1>4, <1>5, <1>6 DEF Next

\* No step tells an approval nobody gave.
LEMMA NextTraceable == IInv /\ [Next]_vars => [TraceableStep]_vars
<1> SUFFICES ASSUME IInv, Next, NEW d \in Caller, caller'[d] # caller[d],
                    caller'[d].st = "answered", caller'[d].approved = TRUE
             PROVE  \/ caller'[d].by = "system:policy-rule"
                    \/ caller'[d].key \in late
                    \/ /\ ruling'[caller'[d].key].verdict = "approved"
                       /\ \/ ruling'[caller'[d].key].at = now
                          \/ now < ruling'[caller'[d].key].at + ApprovalTtl
    BY DEF TraceableStep
<1>1. CASE \E c \in Caller, k \in Key, mode \in Mode : RequestApproval(c, k, mode)
  <2>1. PICK c \in Caller, k \in Key, mode \in Mode : RequestApproval(c, k, mode)
    BY <1>1
  <2>a. proc # "down"
    BY <2>1 DEF RequestApproval, Serving
  <2>2. c = d
    <3>1. \E r : caller' = [caller EXCEPT ![c] = r]
      BY <2>1 DEF RequestApproval, Told, Join, PromptOperator
    <3> QED
      BY <3>1 DEF IInv, TypeOK
  <2>3. CASE \E approved \in BOOLEAN, by \in {"system:invalid-request", "system:cached-denial"} :
                approved = FALSE /\ Told(c, k, approved, by)
    BY <2>2, <2>3 DEF Told, IInv, TypeOK
  <2>4. CASE \E approved \in BOOLEAN : Told(c, k, approved, "system:policy-rule")
    BY <2>2, <2>4 DEF Told, IInv, TypeOK
  <2>5. CASE Live(approvalCache, k) /\ Told(c, k, TRUE, "system:cached-approval")
    <3>1. caller'[d].key = k /\ ruling' = ruling
      BY <2>2, <2>5 DEF Told, history, IInv, TypeOK
    <3>2. now \in Nat /\ proc \in {"up", "stopping"}
      BY <2>a DEF IInv, TypeOK
    <3>3. CASE k \notin late
      <4>1. proc # "stopping"
        BY <2>5, <3>2, <3>3 DEF Live, IInv, CacheInv
      <4> QED
        BY <4>1, <2>5, <3>1, <3>2, <3>3 DEF Live, IInv, CacheInv, Stands
    <3> QED
      BY <3>1, <3>3
  <2>6. CASE Join(c, k) \/ \E t \in Timeouts : PromptOperator(c, k, t)
    BY <2>2, <2>6 DEF Join, PromptOperator, IInv, TypeOK
  <2> QED
    BY <2>1, <2>3, <2>4, <2>5, <2>6 DEF RequestApproval
<1>2. CASE \/ \E p \in pendingMap, approved \in BOOLEAN : Answer(p, approved)
           \/ \E conv \in Conversation, approved \in BOOLEAN : AnswerAll(conv, approved)
           \/ \E p \in pendingMap : Timeout(p)
  <2>1. PICK S \in SUBSET pendingMap, approved \in BOOLEAN, by \in {"operator", "system:timeout"} :
               (approved => by = "operator") /\ Resolve(S, approved, by)
    BY <1>2, ResolutionSteps
  <2>2. /\ Reached(S, d) /\ approved
        /\ caller'[d].key = caller[d].key
    BY <2>1, DeliverTells DEF Resolve
  <2>3. caller[d].key \in KeysOf(S) /\ caller[d].key \in Key
    BY <2>2, ReachedWaits DEF KeysOf, IInv, TypeOK, Prompt
  <2>4. by = "operator"
    BY <2>1, <2>2
  <2>5. ruling'[caller[d].key] = [verdict |-> "approved", at |-> now]
    BY <2>1, <2>2, <2>3, <2>4 DEF Resolve
  <2> QED
    BY <2>2, <2>5
<1>3. CASE \E conv \in Conversation : ClearDenialCache(conv) \/ ClearApprovalCache(conv)
  BY <1>3 DEF ClearDenialCache, ClearApprovalCache
<1>4. CASE \E wp, wc \in BOOLEAN : Shutdown(wp, wc)
  BY <1>4, DeliverTells DEF Shutdown
<1>5. CASE Exit
  BY <1>5 DEF Exit, Idle
<1>6. CASE Boot \/ Tick
  BY <1>6 DEF Boot, Tick
<1> QED
  BY <1>1, <1>2, <1>3, <1>4, <1>5, <1>6 DEF Next

-----------------------------------------------------------------------------
(* The theorems.                                                           *)

\* Every reachable state of the gate is well typed, files and caches of a
\* restarted process included.
THEOREM TypeCorrect == Spec => []TypeOK
<1>1. IInv => TypeOK
  BY DEF IInv
<1> QED
  BY <1>1, SpecInv, PTL

\* requestApproval never opens a second prompt for an identity, and
\* restorePending never brings one back beside a new one.
THEOREM OnePrompt == Spec => []OnePromptPerIdentity
<1>1. IInv => OnePromptPerIdentity
  BY DEF IInv, PromptsInv, PromptsOK, OnePromptPerIdentity
<1> QED
  BY <1>1, SpecInv, PTL

\* The short-id index names exactly the pending requests, through resolutions,
\* timeouts, dispose() and restore.
THEOREM IndexExact == Spec => []IndexMatchesPending
<1>1. IInv => IndexMatchesPending
  BY DEF IInv
<1> QED
  BY <1>1, SpecInv, PTL

\* A caller suspended in requestApproval always has its own prompt pending, so
\* a timer or an operator can still release it.
THEOREM NoOrphanWaiter == Spec => []WaiterHasPrompt
<1>1. IInv => WaiterHasPrompt
  BY DEF IInv
<1> QED
  BY <1>1, SpecInv, PTL

\* No prompt is open for an identity with a live cached decision, whatever the
\* restored files hold.
THEOREM NotAskedTwice == Spec => []NoPromptWhileDecided
<1>1. IInv => NoPromptWhileDecided
  BY DEF IInv, DecidedInv
<1> QED
  BY <1>1, SpecInv, PTL

\* A live cached approval stands for the last human decision on its identity:
\* resolveApproval, clearApprovalCache and the restart files never leave an
\* approval that a later denial, timeout or clear has withdrawn.
THEOREM CacheTruthful == Spec => []DenialAlwaysWins
<1>1. IInv => DenialAlwaysWins
  BY DEF IInv, CacheInv, Stands, Live, DenialAlwaysWins
<1> QED
  BY <1>1, SpecInv, PTL

\* requestApproval and resolveApproval say "approved" only on the strength of
\* the policy or of a standing human approval of exactly that identity.
THEOREM EveryApprovalTraceable == Spec => ApprovalTraceable
<1>1. IInv /\ [Next]_vars => [TraceableStep]_vars
  BY NextTraceable
<1> QED
  BY <1>1, SpecInv, PTL DEF Spec, ApprovalTraceable

\* The resolution that reaches a waiting caller, leader or follower, is that of
\* the prompt it waits for.
THEOREM OwnPromptAnswers == Spec => AnsweredByOwnPrompt
<1>1. IInv /\ [Next]_vars => [OwnPromptStep]_vars
  BY NextOwnPrompt
<1> QED
  BY <1>1, SpecInv, PTL DEF Spec, AnsweredByOwnPrompt
=============================================================================
