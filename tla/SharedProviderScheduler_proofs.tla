--------------------- MODULE SharedProviderScheduler_proofs ---------------------
(***************************************************************************)
(* The use counts of the shared provider runners are right, and a runner   *)
(* that is in use is not replaced, for any number of MRs and handles.      *)
(***************************************************************************)
EXTENDS SharedProviderScheduler, FiniteSetTheorems, TLAPS

--------------------------------------------------------------------------------
(* The inductive invariant.  The counts agree at an Increment only if there is a    *)
(* runner to count on, and at a replacement only if an empty place counts nobody.   *)

Given ==
    \A m \in MRs : workers[m].pc \in {"share", "begin", "running"}
                      => runners[workers[m].handle].registered

NobodyCounted == \A h \in Handles : ~runners[h].registered => runners[h].inUse = 0

IInv == SchedulerTypeOK /\ CountsAgree /\ Given /\ NobodyCounted

\* What a step leaves of the users of every runner.
SameUsers ==
    \A h \in Handles : SyncUsers(h)' = SyncUsers(h) /\ AsyncUsers(h)' = AsyncUsers(h)

SameCounts ==
    \A h \in Handles : /\ runners'[h].inUse = runners[h].inUse
                       /\ runners'[h].registered = runners[h].registered

--------------------------------------------------------------------------------
(* Lemmas *)

\* The users of a runner are finitely many.
LEMMA UsersFinite ==
    ASSUME NEW h
    PROVE  /\ IsFiniteSet(SyncUsers(h)) /\ Cardinality(SyncUsers(h)) \in Nat
           /\ IsFiniteSet(AsyncUsers(h)) /\ Cardinality(AsyncUsers(h)) \in Nat
           /\ Cardinality(SyncUsers(h)) = 0 <=> SyncUsers(h) = {}
           /\ Cardinality(AsyncUsers(h)) = 0 <=> AsyncUsers(h) = {}
  <1>1. SyncUsers(h) \subseteq MRs /\ AsyncUsers(h) \subseteq MRs
    BY DEF SyncUsers, AsyncUsers
  <1>2. IsFiniteSet(SyncUsers(h)) /\ IsFiniteSet(AsyncUsers(h))
    BY <1>1, FS_Subset, MRsAssumption
  <1> QED BY <1>2, FS_CardinalityType, FS_EmptySet

\* A runner with a use count of zero has no users.
LEMMA NobodyUses ==
    ASSUME CountsAgree, NEW h \in Handles, runners[h].inUse = 0
    PROVE  SyncUsers(h) = {} /\ AsyncUsers(h) = {}
  BY UsersFinite DEF CountsAgree

\* A step that changes neither users nor counts keeps them in agreement.
LEMMA SameCountsAgree ==
    ASSUME IInv, SameUsers, SameCounts
    PROVE  CountsAgree' /\ NobodyCounted'
  BY DEF IInv, CountsAgree, SameUsers, SameCounts, NobodyCounted

\* Counting in one more, or one less, changes a cardinality by one.
LEMMA OneMore ==
    ASSUME NEW S, IsFiniteSet(S), NEW x, x \notin S
    PROVE  Cardinality(S \cup {x}) = Cardinality(S) + 1
  BY FS_AddElement

LEMMA OneLess ==
    ASSUME NEW S, IsFiniteSet(S), NEW x \in S
    PROVE  Cardinality(S \ {x}) = Cardinality(S) - 1
  BY FS_RemoveElement

--------------------------------------------------------------------------------
(* Type correctness *)

\* Counting keeps the type of a runner.
LEMMA CountTypes ==
    ASSUME NEW r \in Runners
    PROVE  /\ Increment(r) \in Runners /\ Decrement(r) \in Runners
           /\ Increment(r).registered = r.registered
           /\ Decrement(r).registered = r.registered
           /\ Increment(r).inUse = r.inUse + 1
           /\ r.inUse > 0 => Decrement(r).inUse = r.inUse - 1
           /\ Increment(r).invocationCount = r.invocationCount + 1
           /\ Decrement(r).invocationCount = r.invocationCount
  <1>1. Increment(r) = [registered |-> r.registered, inUse |-> r.inUse + 1,
                        invocationCount |-> r.invocationCount + 1]
    <2> DEFINE used == [r EXCEPT !.inUse = r.inUse + 1]
    <2>1. used = [registered |-> r.registered, inUse |-> r.inUse + 1,
                  invocationCount |-> r.invocationCount]
      BY DEF Runners
    <2>2. Increment(r) = [used EXCEPT !.invocationCount = r.invocationCount + 1]
      BY DEF Increment
    <2> HIDE DEF used
    <2> QED BY <2>1, <2>2
  <1>2. r.inUse # 0 =>
          Decrement(r) = [registered |-> r.registered, inUse |-> r.inUse - 1,
                          invocationCount |-> r.invocationCount]
    BY DEF Decrement, Runners
  <1>3. r.inUse = 0 => Decrement(r) = r
    BY DEF Decrement
  <1> QED BY <1>1, <1>2, <1>3 DEF Runners

\* Making what the others hold stale changes nothing else of them.
LEMMA StaleWorkers ==
    ASSUME SchedulerTypeOK, NEW h
    PROVE  /\ Stale(h) \in [MRs -> Reconciles]
           /\ \A m \in MRs : /\ Stale(h)[m].pc = workers[m].pc
                             /\ Stale(h)[m].handle = workers[m].handle
                             /\ Stale(h)[m].run = workers[m].run
  BY DEF SchedulerTypeOK, Stale, Reconciles, Holdings

\* A reconcile keeps the types.
LEMMA ReconcileTypes ==
    ASSUME SchedulerTypeOK, NEW m \in MRs, Worker(m)
    PROVE  SchedulerTypeOK'
  <1> USE DEF SchedulerTypeOK
  <1>1. CASE Connect(m)
    <2>1. PICK h \in Handles :
              workers' = [workers EXCEPT ![m].pc = "schedule", ![m].run = "refresh",
                                         ![m].handle = h]
      BY <1>1 DEF Connect, Reconciles
    <2>2. workers' \in [MRs -> Reconciles]
      BY <2>1, ZenonT(60) DEF Reconciles
    <2> QED BY <1>1, <2>2 DEF Connect
  <1>2. CASE ScheduleProvider(m)
    <2>1. workers' \in [MRs -> Reconciles]
      <3>1. CASE Goes(m, "idle")
        BY <3>1 DEF Goes, Reconciles
      <3>2. ASSUME NEW w \in [MRs -> Reconciles], Got(w, m) PROVE workers' \in [MRs -> Reconciles]
        BY <3>2 DEF Got, Reconciles, Holdings
      <3> QED BY <1>2, <3>1, <3>2, StaleWorkers DEF ScheduleProvider
    <2>2. NewRunner \in Runners
      BY DEF NewRunner, NoRunner, Runners
    <2>3. runners' \in [Handles -> Runners] /\ UNCHANGED cli
      BY <1>2, <2>2 DEF ScheduleProvider
    <2> QED BY <2>1, <2>3
  <1>3. CASE UseProvider(m)
    <2>1. workers' = [workers EXCEPT ![m].pc = "begin", ![m].shared = workers[m].got,
                                     ![m].got = "none"]
      BY <1>3 DEF UseProvider
    <2> DEFINE begun == [workers EXCEPT ![m].pc = "begin"]
               given == [begun EXCEPT ![m].shared = workers[m].got]
    <2>2. begun \in [MRs -> Reconciles]
      BY DEF Reconciles
    <2>3. given \in [MRs -> Reconciles]
      BY <2>2, ZenonT(60) DEF Reconciles
    <2>4. workers' = [given EXCEPT ![m].got = "none"]
      BY <2>1
    <2> HIDE DEF given
    <2>5. workers' \in [MRs -> Reconciles]
      BY <2>3, <2>4 DEF Reconciles, Holdings
    <2> QED BY <1>3, <2>5 DEF UseProvider
  <1>4. CASE BeginSync(m)
    BY <1>4, CountTypes DEF BeginSync, Goes, Reconciles
  <1>5. CASE BeginAsync(m)
    BY <1>5, CountTypes DEF BeginAsync, Goes, Reconciles, CLIStates
  <1>6. CASE Skip(m)
    BY <1>6 DEF Skip, Goes, Reconciles
  <1>7. CASE EndSync(m)
    <2>1. workers[m].handle \in Handles
      BY DEF Reconciles
    <2>2. runners' \in [Handles -> Runners] /\ UNCHANGED cli
      BY <1>7, <2>1, CountTypes DEF EndSync
    <2>3. \A next \in Following(workers[m].run) :
             next[1] \in {"idle", "begin", "schedule"} /\ next[2] \in {"refresh", "plan", "apply"}
      BY DEF Following
    <2>4. workers' \in [MRs -> Reconciles]
      BY <1>7, <2>3, ZenonT(60) DEF EndSync, Reconciles
    <2> QED BY <2>2, <2>4
  <1> QED BY <1>1, <1>2, <1>3, <1>4, <1>5, <1>6, <1>7 DEF Worker

\* A goroutine keeps the types.
LEMMA GoroutineTypes ==
    ASSUME SchedulerTypeOK, NEW m \in MRs, Goroutine(m)
    PROVE  SchedulerTypeOK'
  <1> USE DEF SchedulerTypeOK
  <1>1. CASE LockWorkspace(m) \/ UnlockWorkspace(m) \/ MarkEnd(m)
    BY <1>1 DEF LockWorkspace, UnlockWorkspace, MarkEnd, CLIStep, CLIStates
  <1>2. CASE CountOut(m)
    <2>1. workers[m].handle \in Handles
      BY DEF Reconciles
    <2> QED BY <1>2, <2>1, CountTypes DEF CountOut, CLIStep, CLIStates
  <1> QED BY <1>1, <1>2 DEF Goroutine

--------------------------------------------------------------------------------
(* The inductive invariant *)

\* At the start nobody is counted.
LEMMA InitInv == SchedulerInit => IInv
  <1> SUFFICES ASSUME SchedulerInit PROVE IInv
    OBVIOUS
  <1>1. SchedulerTypeOK
    BY DEF SchedulerInit, SchedulerTypeOK, Runners, NoRunner, Reconciles, Holdings, CLIStates
  <1>2. \A h \in Handles : SyncUsers(h) = {} /\ AsyncUsers(h) = {}
    BY DEF SchedulerInit, SyncUsers, AsyncUsers
  <1>3. CountsAgree
    <2>1. \A h \in Handles : runners[h].inUse = 0
      BY DEF SchedulerInit, NoRunner
    <2>2. Cardinality({}) = 0
      BY FS_EmptySet
    <2> QED BY <1>2, <2>1, <2>2 DEF CountsAgree
  <1>4. Given /\ NobodyCounted
    BY DEF SchedulerInit, Given, NobodyCounted, NoRunner
  <1> QED BY <1>1, <1>3, <1>4 DEF IInv

\* Steps of one worker that neither begin nor end a CLI run leave the users alone.
LEMMA SameUsersOfStep ==
    ASSUME NEW m \in MRs, cli' = cli,
           workers[m].pc # "running", workers'[m].pc # "running",
           cli[m] # "none" => workers'[m].handle = workers[m].handle,
           \A n \in MRs \ {m} : /\ workers'[n].handle = workers[n].handle
                                /\ workers'[n].pc = workers[n].pc
    PROVE  SameUsers
  BY DEF SameUsers, SyncUsers, AsyncUsers

\* One more user of one runner, counted in, keeps users and counts in agreement.
LEMMA CountedIn ==
    ASSUME IInv, NEW h \in Handles,
           runners'[h].inUse = runners[h].inUse + 1,
           \/ /\ Cardinality(SyncUsers(h)') = Cardinality(SyncUsers(h)) + 1
              /\ AsyncUsers(h)' = AsyncUsers(h)
           \/ /\ Cardinality(AsyncUsers(h)') = Cardinality(AsyncUsers(h)) + 1
              /\ SyncUsers(h)' = SyncUsers(h),
           \A g \in Handles \ {h} : /\ runners'[g] = runners[g]
                                   /\ SyncUsers(g)' = SyncUsers(g)
                                   /\ AsyncUsers(g)' = AsyncUsers(g)
    PROVE  CountsAgree'
  <1> SUFFICES ASSUME NEW g \in Handles
               PROVE  runners'[g].inUse = Cardinality(SyncUsers(g)') + Cardinality(AsyncUsers(g)')
    BY DEF CountsAgree
  <1>1. runners[g].inUse = Cardinality(SyncUsers(g)) + Cardinality(AsyncUsers(g))
    BY DEF IInv, CountsAgree
  <1>2. CASE g = h
    <2>1. Cardinality(SyncUsers(h)) \in Nat /\ Cardinality(AsyncUsers(h)) \in Nat
      BY UsersFinite
    <2> QED BY <1>1, <1>2, <2>1
  <1>3. CASE g # h
    BY <1>1, <1>3
  <1> QED BY <1>2, <1>3

\* So does one less.
LEMMA CountedOut ==
    ASSUME IInv, NEW h \in Handles,
           runners[h].inUse > 0 => runners'[h].inUse = runners[h].inUse - 1,
           \/ /\ SyncUsers(h) # {}
              /\ Cardinality(SyncUsers(h)') = Cardinality(SyncUsers(h)) - 1
              /\ AsyncUsers(h)' = AsyncUsers(h)
           \/ /\ AsyncUsers(h) # {}
              /\ Cardinality(AsyncUsers(h)') = Cardinality(AsyncUsers(h)) - 1
              /\ SyncUsers(h)' = SyncUsers(h),
           \A g \in Handles \ {h} : /\ runners'[g] = runners[g]
                                   /\ SyncUsers(g)' = SyncUsers(g)
                                   /\ AsyncUsers(g)' = AsyncUsers(g)
    PROVE  CountsAgree'
  <1> SUFFICES ASSUME NEW g \in Handles
               PROVE  runners'[g].inUse = Cardinality(SyncUsers(g)') + Cardinality(AsyncUsers(g)')
    BY DEF CountsAgree
  <1>1. runners[g].inUse = Cardinality(SyncUsers(g)) + Cardinality(AsyncUsers(g))
    BY DEF IInv, CountsAgree
  <1>2. CASE g = h
    <2>1. /\ Cardinality(SyncUsers(h)) \in Nat /\ Cardinality(AsyncUsers(h)) \in Nat
          /\ SyncUsers(h) # {} => Cardinality(SyncUsers(h)) # 0
          /\ AsyncUsers(h) # {} => Cardinality(AsyncUsers(h)) # 0
      BY UsersFinite
    <2>2. runners[h].inUse > 0
      BY <1>1, <1>2, <2>1
    <2> QED BY <1>1, <1>2, <2>1, <2>2
  <1>3. CASE g # h
    BY <1>1, <1>3
  <1> QED BY <1>2, <1>3

\* A run that begins is counted in: Refresh, Plan, the synchronous Apply and Destroy.
LEMMA BeginSyncInv ==
    ASSUME IInv, NEW m \in MRs, BeginSync(m)
    PROVE  CountsAgree' /\ Given' /\ NobodyCounted'
  <1>0. PICK h \in Handles : h = workers[m].handle
    BY DEF IInv, SchedulerTypeOK, Reconciles
  <1>1. runners[h] \in Runners /\ runners[h].registered
    BY <1>0 DEF IInv, SchedulerTypeOK, BeginSync, Given
  <1>2. /\ runners' = [runners EXCEPT ![h] = Increment(runners[h])] /\ cli' = cli
        /\ \A n \in MRs : workers'[n].handle = workers[n].handle
        /\ \A n \in MRs \ {m} : workers'[n].pc = workers[n].pc
        /\ workers[m].pc = "begin" /\ workers'[m].pc = "running"
    BY <1>0 DEF IInv, SchedulerTypeOK, BeginSync, Goes, Reconciles
  <1>3. \A g \in Handles : AsyncUsers(g)' = AsyncUsers(g)
    BY <1>0, <1>2 DEF AsyncUsers
  <1>4. \A g \in Handles \ {h} : SyncUsers(g)' = SyncUsers(g)
    BY <1>0, <1>2 DEF SyncUsers
  <1>5. SyncUsers(h)' = SyncUsers(h) \cup {m} /\ m \notin SyncUsers(h)
    BY <1>0, <1>2 DEF SyncUsers
  <1>6. Cardinality(SyncUsers(h)') = Cardinality(SyncUsers(h)) + 1
    BY <1>5, OneMore, UsersFinite
  <1>7. /\ runners'[h].inUse = runners[h].inUse + 1 /\ runners'[h].registered
        /\ \A g \in Handles \ {h} : runners'[g] = runners[g]
    BY <1>1, <1>2, CountTypes DEF IInv, SchedulerTypeOK
  <1>8. CountsAgree'
    BY <1>3, <1>4, <1>6, <1>7, CountedIn
  <1>9. Given' /\ NobodyCounted'
    BY <1>0, <1>1, <1>2, <1>7 DEF IInv, Given, NobodyCounted, SchedulerTypeOK, Reconciles
  <1> QED BY <1>8, <1>9

\* So is one in the background.
LEMMA BeginAsyncInv ==
    ASSUME IInv, NEW m \in MRs, BeginAsync(m)
    PROVE  CountsAgree' /\ Given' /\ NobodyCounted'
  <1>0. PICK h \in Handles : h = workers[m].handle
    BY DEF IInv, SchedulerTypeOK, Reconciles
  <1>1. runners[h] \in Runners /\ runners[h].registered
    BY <1>0 DEF IInv, SchedulerTypeOK, BeginAsync, Given
  <1>2. /\ runners' = [runners EXCEPT ![h] = Increment(runners[h])]
        /\ \A n \in MRs : workers'[n].handle = workers[n].handle
        /\ \A n \in MRs \ {m} : workers'[n].pc = workers[n].pc /\ cli'[n] = cli[n]
        /\ workers[m].pc = "begin" /\ workers'[m].pc = "idle"
        /\ cli[m] = "none" /\ cli'[m] = "starting"
    BY <1>0 DEF IInv, SchedulerTypeOK, BeginAsync, Goes, Reconciles
  <1>3. \A g \in Handles : SyncUsers(g)' = SyncUsers(g)
    BY <1>0, <1>2 DEF SyncUsers
  <1>4. \A g \in Handles \ {h} : AsyncUsers(g)' = AsyncUsers(g)
    BY <1>0, <1>2 DEF AsyncUsers
  <1>5. AsyncUsers(h)' = AsyncUsers(h) \cup {m} /\ m \notin AsyncUsers(h)
    BY <1>0, <1>2 DEF AsyncUsers
  <1>6. Cardinality(AsyncUsers(h)') = Cardinality(AsyncUsers(h)) + 1
    BY <1>5, OneMore, UsersFinite
  <1>7. /\ runners'[h].inUse = runners[h].inUse + 1 /\ runners'[h].registered
        /\ \A g \in Handles \ {h} : runners'[g] = runners[g]
    BY <1>1, <1>2, CountTypes DEF IInv, SchedulerTypeOK
  <1>8. CountsAgree'
    BY <1>3, <1>4, <1>6, <1>7, CountedIn
  <1>9. Given' /\ NobodyCounted'
    BY <1>0, <1>1, <1>2, <1>7 DEF IInv, Given, NobodyCounted, SchedulerTypeOK, Reconciles
  <1> QED BY <1>8, <1>9

\* A synchronous run that ends is counted out.
LEMMA EndSyncInv ==
    ASSUME IInv, NEW m \in MRs, EndSync(m)
    PROVE  CountsAgree' /\ Given' /\ NobodyCounted'
  <1>0. PICK h \in Handles : h = workers[m].handle
    BY DEF IInv, SchedulerTypeOK, Reconciles
  <1>1. runners[h] \in Runners /\ runners[h].registered
    BY <1>0 DEF IInv, SchedulerTypeOK, EndSync, Given
  <1>2. /\ runners' = [runners EXCEPT ![h] = Decrement(runners[h])] /\ cli' = cli
        /\ workers[m].pc = "running"
    BY <1>0 DEF IInv, SchedulerTypeOK, EndSync
  <1>3. PICK next \in Following(workers[m].run) :
          workers' = [workers EXCEPT ![m].pc = next[1], ![m].run = next[2]]
    BY DEF EndSync
  <1>4. next[1] # "running"
    BY DEF Following
  <1>5. /\ \A n \in MRs : workers'[n].handle = workers[n].handle
        /\ \A n \in MRs \ {m} : workers'[n].pc = workers[n].pc
        /\ workers'[m].pc # "running"
    BY <1>3, <1>4 DEF IInv, SchedulerTypeOK, Reconciles
  <1>6. \A g \in Handles : AsyncUsers(g)' = AsyncUsers(g)
    BY <1>2, <1>5 DEF AsyncUsers
  <1>7. \A g \in Handles \ {h} : SyncUsers(g)' = SyncUsers(g)
    BY <1>0, <1>2, <1>5 DEF SyncUsers
  <1>8. SyncUsers(h)' = SyncUsers(h) \ {m} /\ m \in SyncUsers(h)
    BY <1>0, <1>2, <1>5 DEF SyncUsers
  <1>9. Cardinality(SyncUsers(h)') = Cardinality(SyncUsers(h)) - 1 /\ SyncUsers(h) # {}
    BY <1>8, OneLess, UsersFinite
  <1>10. /\ runners[h].inUse > 0 => runners'[h].inUse = runners[h].inUse - 1
         /\ runners'[h].registered
         /\ \A g \in Handles \ {h} : runners'[g] = runners[g]
    BY <1>1, <1>2, CountTypes DEF IInv, SchedulerTypeOK
  <1>11. CountsAgree'
    BY <1>6, <1>7, <1>9, <1>10, CountedOut
  <1>12. Given' /\ NobodyCounted'
    BY <1>0, <1>1, <1>2, <1>5, <1>10 DEF IInv, Given, NobodyCounted, SchedulerTypeOK, Reconciles
  <1> QED BY <1>11, <1>12

\* So is one in the background, by the handle that the workspace has kept.
LEMMA CountOutInv ==
    ASSUME IInv, NEW m \in MRs, CountOut(m)
    PROVE  CountsAgree' /\ Given' /\ NobodyCounted'
  <1>0. PICK h \in Handles : h = workers[m].handle
    BY DEF IInv, SchedulerTypeOK, Reconciles
  <1>1. runners[h] \in Runners
    BY DEF IInv, SchedulerTypeOK
  <1>2. /\ runners' = [runners EXCEPT ![h] = Decrement(runners[h])] /\ workers' = workers
        /\ cli[m] = "releasing" /\ cli'[m] = "ending"
        /\ \A n \in MRs \ {m} : cli'[n] = cli[n]
    BY <1>0 DEF IInv, SchedulerTypeOK, CountOut, CLIStep
  <1>3. \A g \in Handles : SyncUsers(g)' = SyncUsers(g)
    BY <1>2 DEF SyncUsers
  <1>4. \A g \in Handles \ {h} : AsyncUsers(g)' = AsyncUsers(g)
    BY <1>0, <1>2 DEF AsyncUsers
  <1>5. AsyncUsers(h)' = AsyncUsers(h) \ {m} /\ m \in AsyncUsers(h)
    BY <1>0, <1>2 DEF AsyncUsers
  <1>6. Cardinality(AsyncUsers(h)') = Cardinality(AsyncUsers(h)) - 1 /\ AsyncUsers(h) # {}
    BY <1>5, OneLess, UsersFinite
  <1>7. /\ runners[h].inUse > 0 => runners'[h].inUse = runners[h].inUse - 1
        /\ runners[h].inUse = 0 => runners'[h].inUse = 0
        /\ runners'[h].registered = runners[h].registered
        /\ \A g \in Handles \ {h} : runners'[g] = runners[g]
    BY <1>1, <1>2, CountTypes DEF IInv, SchedulerTypeOK, Decrement
  <1>8. CountsAgree'
    BY <1>3, <1>4, <1>6, <1>7, CountedOut
  <1>9. Given' /\ NobodyCounted'
    BY <1>2, <1>7 DEF IInv, Given, NobodyCounted, SchedulerTypeOK, Reconciles
  <1> QED BY <1>8, <1>9

\* A step that counts nobody keeps the invariant, if it leaves a runner for whoever needs one.
LEMMA SameUsersInv ==
    ASSUME IInv, NEW m \in MRs, runners' = runners, cli' = cli,
           workers[m].pc # "running", workers'[m].pc # "running",
           cli[m] # "none" => workers'[m].handle = workers[m].handle,
           workers'[m].pc \in {"share", "begin"}
               => runners[workers'[m].handle].registered,
           \A n \in MRs \ {m} : workers'[n].handle = workers[n].handle /\ workers'[n].pc = workers[n].pc
    PROVE  CountsAgree' /\ Given' /\ NobodyCounted'
  <1>1. SameUsers
    BY SameUsersOfStep
  <1>2. SameCounts
    BY DEF SameCounts
  <1>3. Given'
    BY DEF IInv, Given
  <1> QED BY <1>1, <1>2, <1>3, SameCountsAgree

\* What a worker does that is neither Start nor a CLI run counts nobody.
LEMMA QuietInv ==
    ASSUME IInv, NEW m \in MRs, Connect(m) \/ UseProvider(m) \/ Skip(m)
    PROVE  CountsAgree' /\ Given' /\ NobodyCounted'
  <1>1. CASE Connect(m)
    <2>1. PICK h \in IF cli[m] = "none" THEN Handles ELSE {workers[m].handle} :
             workers' = [workers EXCEPT ![m].pc = "schedule", ![m].run = "refresh",
                                        ![m].handle = h]
      BY <1>1 DEF Connect
    <2>2. /\ workers'[m].pc = "schedule" /\ workers'[m].handle = h
          /\ \A n \in MRs \ {m} : workers'[n] = workers[n]
      BY <2>1 DEF IInv, SchedulerTypeOK, Reconciles
    <2>3. cli[m] # "none" => workers'[m].handle = workers[m].handle
      BY <2>2
    <2>4. workers[m].pc = "idle" /\ runners' = runners /\ cli' = cli
      BY <1>1 DEF Connect
    <2> QED BY <2>2, <2>3, <2>4, SameUsersInv
  <1>2. CASE UseProvider(m)
    BY <1>2, SameUsersInv DEF UseProvider, Given, IInv, SchedulerTypeOK, Reconciles
  <1>3. CASE Skip(m)
    BY <1>3, SameUsersInv DEF Skip, Goes, IInv, SchedulerTypeOK, Reconciles
  <1> QED BY <1>1, <1>2, <1>3

\* Start gives out a runner that there is, and replaces one that nobody is counted in.
LEMMA ScheduleInv ==
    ASSUME IInv, NEW m \in MRs, ScheduleProvider(m)
    PROVE  CountsAgree' /\ Given' /\ NobodyCounted'
  <1>0. PICK h \in Handles : h = workers[m].handle
    BY DEF IInv, SchedulerTypeOK, Reconciles
  <1>1. workers[m].pc = "schedule" /\ cli' = cli
    BY DEF ScheduleProvider
  <1>2. CASE runners[h].registered /\ Reusable(runners[h])
    <2>1. runners' = runners /\ (Goes(m, "idle") \/ Got(workers, m))
      BY <1>0, <1>2 DEF ScheduleProvider
    <2>2. /\ workers'[m].pc \in {"idle", "share"} /\ workers'[m].handle = h
          /\ \A n \in MRs \ {m} : workers'[n] = workers[n]
      BY <1>0, <2>1 DEF Goes, Got, IInv, SchedulerTypeOK, Reconciles
    <2> QED BY <1>0, <1>1, <1>2, <2>1, <2>2, SameUsersInv
  <1>3. CASE ~(runners[h].registered /\ Reusable(runners[h]))
    <2>1. runners' = [runners EXCEPT ![h] = NewRunner] /\ Got(Stale(h), m)
      BY <1>0, <1>3 DEF ScheduleProvider
    <2>2. /\ Stale(h) \in [MRs -> Reconciles]
          /\ \A n \in MRs : /\ Stale(h)[n].pc = workers[n].pc
                            /\ Stale(h)[n].handle = workers[n].handle
        BY StaleWorkers DEF IInv
    <2>3. /\ workers'[m].pc \in {"idle", "share"}
          /\ \A n \in MRs : workers'[n].handle = workers[n].handle
          /\ \A n \in MRs \ {m} : workers'[n].pc = workers[n].pc
      BY <2>1, <2>2 DEF Got, Reconciles
    <2>4. runners[h].inUse = 0
      BY <1>3 DEF IInv, SchedulerTypeOK, Runners, NobodyCounted, Reusable
    <2>5. /\ runners'[h].inUse = 0 /\ runners'[h].registered
          /\ \A g \in Handles \ {h} : runners'[g] = runners[g]
      BY <2>1 DEF NewRunner, NoRunner, IInv, SchedulerTypeOK
    <2>6. SameUsers
      BY <1>1, <2>3, SameUsersOfStep
    <2>7. CountsAgree'
      BY <2>4, <2>5, <2>6 DEF IInv, CountsAgree, SameUsers
    <2>8. \A n \in MRs : workers[n].handle \in Handles
      BY DEF IInv, SchedulerTypeOK, Reconciles
    <2>9. Given'
      BY <1>0, <2>3, <2>5, <2>8 DEF IInv, Given
    <2>10. NobodyCounted'
      BY <2>5 DEF IInv, NobodyCounted
    <2> QED BY <2>7, <2>9, <2>10
  <1> QED BY <1>2, <1>3

\* Every step keeps the invariant.
LEMMA NextInv == IInv /\ [SchedulerNext]_schedulerVars => IInv'
  <1> SUFFICES ASSUME IInv, [SchedulerNext]_schedulerVars PROVE IInv'
    OBVIOUS
  <1>1. SchedulerTypeOK'
    BY ReconcileTypes, GoroutineTypes DEF IInv, SchedulerNext, schedulerVars, SchedulerTypeOK
  <1>2. ASSUME NEW m \in MRs, Worker(m)
        PROVE  CountsAgree' /\ Given' /\ NobodyCounted'
    BY <1>2, QuietInv, ScheduleInv, BeginSyncInv, BeginAsyncInv, EndSyncInv DEF Worker
  <1>3. ASSUME NEW m \in MRs, LockWorkspace(m) \/ UnlockWorkspace(m) \/ MarkEnd(m)
        PROVE  CountsAgree' /\ Given' /\ NobodyCounted'
    <2>1. runners' = runners /\ workers' = workers
      BY <1>3 DEF LockWorkspace, UnlockWorkspace, MarkEnd
    <2>2. SameUsers
      BY <1>3, <2>1 DEF SameUsers, SyncUsers, AsyncUsers, LockWorkspace, UnlockWorkspace,
                        MarkEnd, CLIStep, IInv, SchedulerTypeOK
    <2> QED BY <2>1, <2>2, SameCountsAgree DEF SameCounts, IInv, Given
  <1>4. ASSUME NEW m \in MRs, Goroutine(m)
        PROVE  CountsAgree' /\ Given' /\ NobodyCounted'
    BY <1>3, <1>4, CountOutInv DEF Goroutine
  <1>5. CASE UNCHANGED schedulerVars
    <2>1. SameUsers /\ SameCounts /\ Given'
      BY <1>5 DEF schedulerVars, IInv, SameUsers, SyncUsers, AsyncUsers, SameCounts, Given
    <2> QED BY <1>1, <2>1, SameCountsAgree DEF IInv
  <1> QED BY <1>1, <1>2, <1>4, <1>5 DEF SchedulerNext, IInv

--------------------------------------------------------------------------------
(* Theorems *)

\* The invariant holds for any MRs, handles and TTL.
THEOREM Inductive == SchedulerSpec => []IInv
  BY InitInv, NextInv, PTL DEF SchedulerSpec

\* The variables of the scheduler and of its users keep their types (provider_scheduler.go),
\* for any MRs, handles and TTL.
THEOREM TypeCorrect == SchedulerSpec => []SchedulerTypeOK
  <1>1. IInv => SchedulerTypeOK
    BY DEF IInv
  <1> QED BY <1>1, Inductive, PTL

\* The use count of a runner is the number of the CLI runs that are counted in (Increment
\* and Decrement of provider_scheduler.go, and their callers in workspace.go).
THEOREM CountsMatchUsers == SchedulerSpec => []CountsAgree
  BY Inductive, PTL DEF IInv

\* No step of a worker or goroutine lowers the invocation count of a runner in use.
LEMMA NoReplacement ==
    ASSUME IInv, [SchedulerNext]_schedulerVars, NEW h \in Handles,
           runners'[h].invocationCount < runners[h].invocationCount
    PROVE  SyncUsers(h) = {} /\ AsyncUsers(h) = {}
  <1>1. runners[h] \in Runners /\ runners \in [Handles -> Runners]
    BY DEF IInv, SchedulerTypeOK
  <1>2. runners'[h] # runners[h]
    BY <1>1 DEF Runners
  <1>3. Increment(runners[h]).invocationCount = runners[h].invocationCount + 1
    BY <1>1, CountTypes
  <1>4. Decrement(runners[h]).invocationCount = runners[h].invocationCount
    BY <1>1, CountTypes
  <1>5. /\ runners'[h] # Increment(runners[h])
        /\ runners'[h] # Decrement(runners[h])
    BY <1>1, <1>3, <1>4 DEF Runners
  <1>6. PICK m \in MRs : Worker(m) \/ Goroutine(m)
    BY <1>2 DEF SchedulerNext, schedulerVars
  <1>7. workers[m].handle \in Handles
    BY DEF IInv, SchedulerTypeOK, Reconciles
  <1>8. ScheduleProvider(m)
    BY <1>1, <1>2, <1>5, <1>6, <1>7
       DEF Worker, Goroutine, Connect, UseProvider, BeginSync, BeginAsync, Skip, EndSync,
           LockWorkspace, UnlockWorkspace, CountOut, MarkEnd
  <1>9. h = workers[m].handle /\ ~(runners[h].registered /\ Reusable(runners[h]))
    BY <1>1, <1>2, <1>7, <1>8 DEF ScheduleProvider
  <1>10. runners[h].inUse = 0
    BY <1>1, <1>9 DEF IInv, NobodyCounted, Reusable, Runners
  <1> QED BY <1>10, NobodyUses DEF IInv

\* A runner is replaced only while no CLI run is counted in (Start of provider_scheduler.go).
THEOREM ReplacedOnlyUnused == SchedulerSpec => PinnedWhileInUse
  <1>1. IInv /\ [SchedulerNext]_schedulerVars =>
           [\A h \in Handles :
               runners'[h].invocationCount < runners[h].invocationCount
                  => SyncUsers(h) = {} /\ AsyncUsers(h) = {}]_schedulerVars
    BY NoReplacement
  <1> QED BY <1>1, Inductive, PTL DEF SchedulerSpec, PinnedWhileInUse

--------------------------------------------------------------------------------
(* The budget.  A reconcile that was given a runner may still run the CLI once, or  *)
(* twice if it has yet to refresh; what is counted and what may come stay bounded.  *)

MayRun(w)      == w.pc \in {"share", "begin"} \/ (w.pc = "running" /\ w.run = "refresh")
MayRunTwice(w) == w.pc \in {"share", "begin"} /\ w.run = "refresh"

Once(h)  == {m \in MRs : workers[m].handle = h /\ MayRun(workers[m])}
Twice(h) == {m \in MRs : workers[m].handle = h /\ MayRunTwice(workers[m])}

Foreseen ==
    \A h \in Handles : runners[h].invocationCount + Cardinality(Once(h))
                          + Cardinality(Twice(h)) <= Margin + 2 * Cardinality(MRs)

\* Sets of MRs have cardinalities, and smaller sets have smaller ones.
LEMMA SetsOfMRs ==
    ASSUME NEW S, NEW R, S \subseteq MRs, R \subseteq S
    PROVE  /\ IsFiniteSet(S) /\ IsFiniteSet(R)
           /\ Cardinality(MRs) \in Nat /\ Cardinality(S) \in Nat /\ Cardinality(R) \in Nat
           /\ Cardinality(R) <= Cardinality(S) /\ Cardinality(S) <= Cardinality(MRs)
  <1>1. IsFiniteSet(MRs)
    BY MRsAssumption
  <1>2. IsFiniteSet(S) /\ Cardinality(S) <= Cardinality(MRs)
    BY <1>1, FS_Subset
  <1>3. IsFiniteSet(R) /\ Cardinality(R) <= Cardinality(S)
    BY <1>2, FS_Subset
  <1> QED BY <1>1, <1>2, <1>3, FS_CardinalityType

\* Likewise if an element is left out.
LEMMA SetWithout ==
    ASSUME NEW S, NEW R, NEW x \in S, S \subseteq MRs, R \subseteq S \ {x}
    PROVE  Cardinality(R) <= Cardinality(S) - 1
  <1>1. Cardinality(S \ {x}) = Cardinality(S) - 1
    BY SetsOfMRs, OneLess
  <1>2. Cardinality(R) <= Cardinality(S \ {x})
    BY SetsOfMRs
  <1> QED BY <1>1, <1>2

\* A step that counts nothing more and lets nobody run more often keeps the bound; so does
\* one that counts somebody in who will run once less; and whoever is within the margin.
LEMMA StaysForeseen ==
    ASSUME IInv, SchedulerTypeOK', Foreseen, NEW h \in Handles,
           \/ /\ runners'[h].invocationCount <= runners[h].invocationCount
              /\ Once(h)' \subseteq Once(h) /\ Twice(h)' \subseteq Twice(h)
           \/ /\ runners'[h].invocationCount = runners[h].invocationCount + 1
              /\ \E m \in Once(h) : Once(h)' \subseteq Once(h) \ {m}
              /\ Twice(h)' \subseteq Twice(h)
           \/ /\ runners'[h].invocationCount = runners[h].invocationCount + 1
              /\ Once(h)' \subseteq Once(h)
              /\ \E m \in Twice(h) : Twice(h)' \subseteq Twice(h) \ {m}
           \/ runners'[h].invocationCount <= Margin
    PROVE  runners'[h].invocationCount + Cardinality(Once(h)')
              + Cardinality(Twice(h)') <= Margin + 2 * Cardinality(MRs)
  <1>1. /\ Once(h) \subseteq MRs /\ Twice(h) \subseteq MRs
        /\ Once(h)' \subseteq MRs /\ Twice(h)' \subseteq MRs
    BY DEF Once, Twice
  <1>2. /\ Cardinality(Once(h)) \in Nat /\ Cardinality(Twice(h)) \in Nat
        /\ Cardinality(Once(h)') \in Nat /\ Cardinality(Twice(h)') \in Nat
        /\ Cardinality(Once(h)') <= Cardinality(MRs)
        /\ Cardinality(Twice(h)') <= Cardinality(MRs)
        /\ Cardinality(MRs) \in Nat
    BY <1>1, SetsOfMRs
  <1>3. /\ runners[h].invocationCount \in Nat /\ runners'[h].invocationCount \in Nat
        /\ Margin \in Nat
    BY TTLAssumption DEF IInv, SchedulerTypeOK, Runners, Margin
  <1>4. runners[h].invocationCount + Cardinality(Once(h)) + Cardinality(Twice(h))
           <= Margin + 2 * Cardinality(MRs)
    BY DEF Foreseen
  <1>5. /\ Once(h)' \subseteq Once(h) => Cardinality(Once(h)') <= Cardinality(Once(h))
        /\ Twice(h)' \subseteq Twice(h) => Cardinality(Twice(h)') <= Cardinality(Twice(h))
    BY <1>1, SetsOfMRs
  <1>6. /\ \A m \in Once(h) : Once(h)' \subseteq Once(h) \ {m}
              => Cardinality(Once(h)') <= Cardinality(Once(h)) - 1
        /\ \A m \in Twice(h) : Twice(h)' \subseteq Twice(h) \ {m}
              => Cardinality(Twice(h)') <= Cardinality(Twice(h)) - 1
    BY <1>1, SetWithout
  <1> QED BY <1>2, <1>3, <1>4, <1>5, <1>6

\* A step of one worker by which nobody may run more often than before.
RunsNoMore(m) ==
    /\ \A n \in MRs \ {m} : /\ workers'[n].handle = workers[n].handle
                            /\ workers'[n].pc = workers[n].pc
                            /\ workers'[n].run = workers[n].run
    /\ MayRun(workers'[m]) => MayRun(workers[m]) /\ workers'[m].handle = workers[m].handle
    /\ MayRunTwice(workers'[m])
          => MayRunTwice(workers[m]) /\ workers'[m].handle = workers[m].handle

LEMMA FewerRuns ==
    ASSUME NEW m \in MRs, RunsNoMore(m), NEW h
    PROVE  Once(h)' \subseteq Once(h) /\ Twice(h)' \subseteq Twice(h)
  BY DEF RunsNoMore, Once, Twice, MayRun, MayRunTwice

\* What a worker does without counting itself in, and without a new runner.
LEMMA UncountedForeseen ==
    ASSUME IInv, SchedulerTypeOK', Foreseen, NEW m \in MRs, RunsNoMore(m),
           \A h \in Handles : runners'[h].invocationCount = runners[h].invocationCount
    PROVE  Foreseen'
  <1> SUFFICES ASSUME NEW h \in Handles
               PROVE  runners'[h].invocationCount + Cardinality(Once(h)')
                         + Cardinality(Twice(h)') <= Margin + 2 * Cardinality(MRs)
    BY DEF Foreseen
  <1>1. runners[h].invocationCount \in Nat
    BY DEF IInv, SchedulerTypeOK, Runners
  <1>2. Once(h)' \subseteq Once(h) /\ Twice(h)' \subseteq Twice(h)
    BY FewerRuns
  <1> QED BY <1>1, <1>2, StaysForeseen

\* A worker that counts itself in will run once less.
LEMMA CountedForeseen ==
    ASSUME IInv, SchedulerTypeOK', Foreseen, NEW m \in MRs, BeginSync(m) \/ BeginAsync(m)
    PROVE  Foreseen'
  <1> SUFFICES ASSUME NEW h \in Handles
               PROVE  runners'[h].invocationCount + Cardinality(Once(h)')
                         + Cardinality(Twice(h)') <= Margin + 2 * Cardinality(MRs)
    BY DEF Foreseen
  <1>1. /\ workers[m].pc = "begin" /\ workers'[m].run = workers[m].run
        /\ workers'[m].pc \in {"running", "idle"} /\ workers'[m].handle = workers[m].handle
        /\ workers'[m].pc = "idle" => workers[m].run = "apply"
        /\ \A n \in MRs \ {m} : workers'[n] = workers[n]
    BY DEF BeginSync, BeginAsync, Goes, IInv, SchedulerTypeOK, Reconciles
  <1>2. RunsNoMore(m)
    BY <1>1 DEF RunsNoMore, MayRun, MayRunTwice
  <1>3. Once(h)' \subseteq Once(h) /\ Twice(h)' \subseteq Twice(h)
    BY <1>2, FewerRuns
  <1>4. /\ runners[h] \in Runners
        /\ runners' = [runners EXCEPT ![workers[m].handle] = Increment(@)]
    BY DEF IInv, SchedulerTypeOK, BeginSync, BeginAsync
  <1>5. CASE h # workers[m].handle
    <2>1. runners'[h].invocationCount <= runners[h].invocationCount
      BY <1>4, <1>5 DEF IInv, SchedulerTypeOK, Runners
    <2> QED BY <1>3, <2>1, StaysForeseen
  <1>6. CASE h = workers[m].handle
    <2>1. runners'[h].invocationCount = runners[h].invocationCount + 1
      BY <1>4, <1>6, CountTypes DEF IInv, SchedulerTypeOK
    <2>2. CASE workers[m].run = "refresh"
      <3>1. m \in Twice(h) /\ Twice(h)' \subseteq Twice(h) \ {m}
        BY <1>1, <1>3, <1>6, <2>2 DEF Twice, MayRunTwice
      <3> QED BY <1>3, <2>1, <3>1, StaysForeseen
    <2>3. CASE workers[m].run # "refresh"
      <3>1. m \in Once(h) /\ Once(h)' \subseteq Once(h) \ {m}
        BY <1>1, <1>3, <1>6, <2>3 DEF Once, MayRun
      <3> QED BY <1>3, <2>1, <3>1, StaysForeseen
    <2> QED BY <2>2, <2>3
  <1> QED BY <1>5, <1>6

\* Start gives out only a runner that is within its margin.
LEMMA ScheduleForeseen ==
    ASSUME IInv, SchedulerTypeOK', Foreseen, NEW m \in MRs, ScheduleProvider(m)
    PROVE  Foreseen'
  <1>1. PICK h \in Handles : h = workers[m].handle
    BY DEF IInv, SchedulerTypeOK, Reconciles
  <1>2. CASE Goes(m, "idle") /\ runners' = runners
    <2>1. RunsNoMore(m)
      BY <1>2 DEF Goes, RunsNoMore, MayRun, MayRunTwice, IInv, SchedulerTypeOK, Reconciles
    <2> QED BY <1>2, <2>1, UncountedForeseen
  <1>3. CASE /\ runners'[h].invocationCount <= Margin
             /\ \A g \in Handles \ {h} : runners'[g] = runners[g]
             /\ \A n \in MRs : workers'[n].handle = workers[n].handle
             /\ \A n \in MRs \ {m} : /\ workers'[n].pc = workers[n].pc
                                     /\ workers'[n].run = workers[n].run
    <2> SUFFICES ASSUME NEW g \in Handles
                 PROVE  runners'[g].invocationCount + Cardinality(Once(g)')
                           + Cardinality(Twice(g)') <= Margin + 2 * Cardinality(MRs)
      BY DEF Foreseen
    <2>1. CASE g = h
      BY <1>3, <2>1, StaysForeseen
    <2>2. CASE g # h
      <3>1. Once(g)' \subseteq Once(g) /\ Twice(g)' \subseteq Twice(g)
        BY <1>1, <1>3, <2>2 DEF Once, Twice, MayRun, MayRunTwice
      <3>2. runners'[g].invocationCount <= runners[g].invocationCount
        BY <1>3, <2>2 DEF IInv, SchedulerTypeOK, Runners
      <3> QED BY <3>1, <3>2, StaysForeseen
    <2> QED BY <2>1, <2>2
  <1>4. CASE runners' = runners /\ ~OverBudget(runners[h]) /\ Got(workers, m)
    <2>1. runners'[h].invocationCount <= Margin
      BY <1>4, TTLAssumption DEF OverBudget, Margin, IInv, SchedulerTypeOK, Runners
    <2>2. /\ \A n \in MRs : workers'[n].handle = workers[n].handle
          /\ \A n \in MRs \ {m} : workers'[n] = workers[n]
      BY <1>4 DEF Got, IInv, SchedulerTypeOK, Reconciles
    <2> QED BY <1>3, <1>4, <2>1, <2>2
  <1>5. CASE runners' = [runners EXCEPT ![h] = NewRunner] /\ Got(Stale(h), m)
    <2>1. runners'[h].invocationCount <= Margin
      BY <1>5, TTLAssumption DEF NewRunner, NoRunner, Margin, IInv, SchedulerTypeOK
    <2>2. /\ Stale(h) \in [MRs -> Reconciles]
          /\ \A n \in MRs : /\ Stale(h)[n].pc = workers[n].pc
                            /\ Stale(h)[n].handle = workers[n].handle
                            /\ Stale(h)[n].run = workers[n].run
      BY StaleWorkers DEF IInv
    <2>3. /\ \A n \in MRs : workers'[n].handle = workers[n].handle
          /\ \A n \in MRs \ {m} : /\ workers'[n].pc = workers[n].pc
                                  /\ workers'[n].run = workers[n].run
      BY <1>5, <2>2 DEF Got, Reconciles
    <2>4. \A g \in Handles \ {h} : runners'[g] = runners[g]
      BY <1>5 DEF IInv, SchedulerTypeOK
    <2> QED BY <1>3, <2>1, <2>3, <2>4
  <1> QED BY <1>1, <1>2, <1>4, <1>5 DEF ScheduleProvider

\* The other steps of a worker, and all of a goroutine, count nothing in.
LEMMA OthersForeseen ==
    ASSUME IInv, SchedulerTypeOK', Foreseen, NEW m \in MRs,
           Connect(m) \/ UseProvider(m) \/ Skip(m) \/ EndSync(m) \/ Goroutine(m)
    PROVE  Foreseen'
  <1>1. ASSUME NEW h \in Handles, runners' = [runners EXCEPT ![h] = Decrement(@)]
        PROVE  \A g \in Handles : runners'[g].invocationCount = runners[g].invocationCount
    BY <1>1, CountTypes DEF IInv, SchedulerTypeOK
  <1>2. workers[m].handle \in Handles
    BY DEF IInv, SchedulerTypeOK, Reconciles
  <1>3. \A h \in Handles : runners'[h].invocationCount = runners[h].invocationCount
    <2>1. CASE runners' = runners
      BY <2>1
    <2>2. CASE EndSync(m) \/ CountOut(m)
      BY <1>1, <1>2, <2>2 DEF EndSync, CountOut
    <2> QED BY <2>1, <2>2 DEF Connect, UseProvider, Skip, Goroutine, LockWorkspace,
                              UnlockWorkspace, MarkEnd
  <1>4. CASE Connect(m) \/ UseProvider(m) \/ Skip(m)
    <2>1. RunsNoMore(m)
      BY <1>4 DEF Connect, UseProvider, Skip, Goes, RunsNoMore, MayRun, MayRunTwice,
                  IInv, SchedulerTypeOK, Reconciles
    <2> QED BY <1>3, <2>1, UncountedForeseen
  <1>5. CASE EndSync(m)
    <2>1. PICK next \in Following(workers[m].run) :
             workers' = [workers EXCEPT ![m].pc = next[1], ![m].run = next[2]]
      BY <1>5 DEF EndSync
    <2>2. /\ workers'[m].pc = next[1] /\ workers'[m].run = next[2]
          /\ workers'[m].handle = workers[m].handle
          /\ \A n \in MRs \ {m} : workers'[n] = workers[n]
      BY <2>1 DEF IInv, SchedulerTypeOK, Reconciles
    <2>3. /\ next[1] \in {"idle", "begin", "schedule"}
          /\ next[1] = "begin" => next[2] = "plan" /\ workers[m].run = "refresh"
      BY DEF Following
    <2>4. RunsNoMore(m)
      BY <1>5, <2>2, <2>3 DEF EndSync, RunsNoMore, MayRun, MayRunTwice
    <2> QED BY <1>3, <2>4, UncountedForeseen
  <1>6. CASE Goroutine(m)
    <2>1. RunsNoMore(m)
      BY <1>6 DEF Goroutine, LockWorkspace, UnlockWorkspace, CountOut, MarkEnd, RunsNoMore
    <2> QED BY <1>3, <2>1, UncountedForeseen
  <1> QED BY <1>4, <1>5, <1>6

\* Every step keeps the bound.
LEMMA NextForeseen == IInv /\ Foreseen /\ [SchedulerNext]_schedulerVars => Foreseen'
  <1> SUFFICES ASSUME IInv, Foreseen, [SchedulerNext]_schedulerVars PROVE Foreseen'
    OBVIOUS
  <1>1. SchedulerTypeOK'
    BY NextInv DEF IInv
  <1>2. CASE SchedulerNext
    BY <1>1, <1>2, OthersForeseen, CountedForeseen, ScheduleForeseen DEF SchedulerNext, Worker
  <1>3. CASE UNCHANGED schedulerVars
    BY <1>3 DEF schedulerVars, Foreseen, Once, Twice
  <1> QED BY <1>2, <1>3

\* The invocation count of a runner exceeds its margin by no more than a refresh and a plan of
\* each MR, which had been given it before (Start of provider_scheduler.go), for any TTL.
THEOREM BudgetIsBounded == SchedulerSpec => []WithinBudget
  <1>1. SchedulerInit => Foreseen
    <2> SUFFICES ASSUME SchedulerInit, NEW h \in Handles
                 PROVE  runners[h].invocationCount + Cardinality(Once(h))
                           + Cardinality(Twice(h)) <= Margin + 2 * Cardinality(MRs)
      BY DEF Foreseen
    <2>1. Once(h) = {} /\ Twice(h) = {} /\ runners[h].invocationCount = 0
      BY DEF SchedulerInit, NoRunner, Once, Twice, MayRun, MayRunTwice
    <2>2. Cardinality({}) = 0 /\ Cardinality(MRs) \in Nat /\ Margin \in Nat
      BY FS_EmptySet, FS_CardinalityType, MRsAssumption, TTLAssumption DEF Margin
    <2> QED BY <2>1, <2>2
  <1>2. IInv /\ Foreseen => WithinBudget
    <2> SUFFICES ASSUME IInv, Foreseen, NEW h \in Handles
                 PROVE  runners[h].invocationCount <= Margin + 2 * Cardinality(MRs)
      BY DEF WithinBudget
    <2>1. /\ Cardinality(Once(h)) \in Nat /\ Cardinality(Twice(h)) \in Nat
          /\ Cardinality(MRs) \in Nat
      BY SetsOfMRs DEF Once, Twice
    <2>2. runners[h].invocationCount \in Nat /\ Margin \in Nat
      BY TTLAssumption DEF IInv, SchedulerTypeOK, Runners, Margin
    <2>3. runners[h].invocationCount + Cardinality(Once(h)) + Cardinality(Twice(h))
             <= Margin + 2 * Cardinality(MRs)
      BY DEF Foreseen
    <2> QED BY <2>1, <2>2, <2>3
  <1> QED BY <1>1, <1>2, InitInv, NextInv, NextForeseen, PTL DEF SchedulerSpec

================================================================================
