------------------------- MODULE CgroupSchedProofs -------------------------
(***************************************************************************)
(* Proofs about CgroupSched for any processes, applications, abilities and *)
(* windows, and any writes that fail: type correctness, the consistency of *)
(* the records, the uniqueness of the top application, that groups are up  *)
(* to date, that sub-window tasks are timed, and that render processes     *)
(* follow their host.                                                      *)
(***************************************************************************)
EXTENDS CgroupSched, TLAPS

Records == [Pids -> ProcessRecord \cup {None}]

(* ComputeProcessGroup returns a group.                                    *)
LEMMA ComputeType ==
  ASSUME NEW rs \in Records, NEW fp, NEW p \in Pids, rs[p] \in ProcessRecord, NEW source
  PROVE  ComputeProcessGroup(rs, fp, p, source) \in Groups \cup {UPPER}
<1>1. HostGroup(rs, rs[p]) \in Groups \cup {UPPER}
  BY CgroupAssumption DEF HostGroup, Records, ProcessRecord, Groups
<1>2. ByActivity(rs[p]) \in Groups
  BY DEF ByActivity, ByState, Groups
<1> QED
  BY <1>1, <1>2 DEF ComputeProcessGroup, Groups

(* Two records that differ in nothing but their groups.                    *)
SameProcess(new, old) ==
  /\ new.type = old.type /\ new.hostPid = old.hostPid /\ new.state = old.state
  /\ new.abilities = old.abilities /\ new.visible = old.visible
  /\ new.webSubWin = old.webSubWin

(* Asking for a group and writing it changes nothing else of a record.     *)
LEMMA ApplyType ==
  ASSUME NEW pr \in ProcessRecord, NEW g \in Groups \cup {UPPER}, NEW ok \in BOOLEAN
  PROVE  LET new == ApplyProcessGroup([pr EXCEPT !.set = g], ok)
         IN  new \in ProcessRecord /\ SameProcess(new, pr) /\ new.set = g
  BY DEF ApplyProcessGroup, Written, ProcessRecord, SameProcess

(* The records and groups after AdjustProcessGroup of the processes of M.  *)
AdjustedResult(rs, M, source) ==
  /\ recs' \in Records
  /\ kernel' \in [Pids -> Groups \cup {None}]
  /\ fresh' \subseteq Pids
  /\ \A p \in Pids : recs'[p] = None <=> rs[p] = None
  /\ \A p \in Pids : rs[p] # None => recs'[p].type = rs[p].type
  /\ \A p \in Pids : (rs[p] # None /\ rs[p].type \in Main) =>
       recs'[p].set = IF p \in M THEN ComputeProcessGroup(rs, focused', p, source)
                      ELSE rs[p].set
  /\ \A p \in Pids : rs[p] # None => SameProcess(recs'[p], rs[p])
  /\ \A p \in Pids : ~Follows(rs, hosts', p, M) =>
       IF p \in M THEN recs'[p].set = ComputeProcessGroup(rs, focused', p, source)
       ELSE recs'[p] = rs[p]
  /\ \A p \in Pids : Follows(rs, hosts', p, M) /\ ~Follows(rs, hosts', rs[p].hostPid, M) =>
       recs'[p].set = recs'[rs[p].hostPid].cur
  /\ fresh' = IF source = "create" THEN fresh \ M ELSE fresh \cup M

LEMMA AdjustedFacts ==
  ASSUME TypeOK, NEW rs \in Records, NEW M \in SUBSET Pids, NEW source,
         \A p \in M : rs[p] # None, Adjusted(rs, M, source)
  PROVE  AdjustedResult(rs, M, source)
<1>1. PICK ok \in Results, moved \in Moves :
        LET want == [p \in Pids |->
                      IF p \in M
                      THEN [rs[p] EXCEPT !.set = ComputeProcessGroup(rs, focused', p, source)]
                      ELSE rs[p]]
            own == [p \in Pids |-> IF p \in M THEN ApplyProcessGroup(want[p], ok[p]) ELSE rs[p]]
            follow(q) == [own[q] EXCEPT !.set = own[rs[q].hostPid].cur]
        IN /\ recs' = [q \in Pids |-> IF Follows(rs, hosts', q, M)
                                      THEN ApplyProcessGroup(follow(q), ok[q]) ELSE own[q]]
           /\ kernel' = [q \in Pids |->
                           IF Follows(rs, hosts', q, M) THEN KernelGroup(follow(q), kernel[q], moved[q])
                           ELSE IF q \in M THEN KernelGroup(want[q], kernel[q], moved[q])
                           ELSE kernel[q]]
           /\ fresh' = IF source = "create" THEN fresh \ M ELSE fresh \cup M
  BY DEF Adjusted
<1> DEFINE want == [p \in Pids |->
                     IF p \in M
                     THEN [rs[p] EXCEPT !.set = ComputeProcessGroup(rs, focused', p, source)]
                     ELSE rs[p]]
           own == [p \in Pids |-> IF p \in M THEN ApplyProcessGroup(want[p], ok[p]) ELSE rs[p]]
           follow(q) == [own[q] EXCEPT !.set = own[rs[q].hostPid].cur]
<1>2. ok \in [Pids -> BOOLEAN]
  BY DEF Results
<1>3. ASSUME NEW p \in Pids, rs[p] # None PROVE rs[p] \in ProcessRecord
  BY <1>3 DEF Records
<1>4. ASSUME NEW p \in M
      PROVE  /\ own[p] \in ProcessRecord /\ SameProcess(own[p], rs[p])
             /\ own[p].set = ComputeProcessGroup(rs, focused', p, source)
             /\ want[p] \in ProcessRecord
             /\ want[p].set = ComputeProcessGroup(rs, focused', p, source)
  <2>1. rs[p] \in ProcessRecord /\ p \in Pids
    BY <1>3
  <2>2. ComputeProcessGroup(rs, focused', p, source) \in Groups \cup {UPPER}
    BY <2>1, ComputeType
  <2>3. own[p] = ApplyProcessGroup([rs[p] EXCEPT !.set = ComputeProcessGroup(rs, focused', p, source)], ok[p])
    BY <2>1
  <2>4. want[p] \in ProcessRecord /\ want[p].set = ComputeProcessGroup(rs, focused', p, source)
    BY <2>1, <2>2 DEF ProcessRecord
  <2>5. ok[p] \in BOOLEAN
    BY <1>2, <2>1
  <2> QED
    BY <2>1, <2>2, <2>3, <2>4, <2>5, ApplyType
<1> HIDE DEF want
<1>5. ASSUME NEW p \in Pids \ M PROVE own[p] = rs[p]
  OBVIOUS
<1>6. ASSUME NEW q \in Pids, Follows(rs, hosts', q, M)
      PROVE  /\ recs'[q] \in ProcessRecord /\ SameProcess(recs'[q], rs[q])
             /\ recs'[q].set = own[rs[q].hostPid].cur
             /\ follow(q) \in ProcessRecord
             /\ rs[q] # None /\ rs[q].type \notin Main
  <2>1. rs[q] # None /\ rs[q].type \in Attached /\ rs[q].hostPid \in M
    BY <1>6 DEF Follows
  <2>2. own[q] \in ProcessRecord /\ SameProcess(own[q], rs[q])
    BY <1>3, <1>4, <1>5, <2>1 DEF SameProcess
  <2>3. own[rs[q].hostPid].cur \in Groups \cup {UPPER}
    BY <1>4, <2>1 DEF ProcessRecord
  <2>4. recs'[q] = ApplyProcessGroup([own[q] EXCEPT !.set = own[rs[q].hostPid].cur], ok[q])
    BY <1>1, <1>6 DEF want
  <2>5. ok[q] \in BOOLEAN
    BY <1>2
  <2> HIDE DEF own
  <2>6. follow(q) \in ProcessRecord
    BY <2>2, <2>3 DEF ProcessRecord
  <2> QED
    BY <2>1, <2>2, <2>3, <2>4, <2>5, <2>6, ApplyType DEF Attached, Main, SameProcess
<1>7. ASSUME NEW q \in Pids, ~Follows(rs, hosts', q, M) PROVE recs'[q] = own[q]
  BY <1>1, <1>7 DEF want
<1> QED
  <2>1. recs' \in Records
    <3>1. recs' = [q \in Pids |-> recs'[q]]
      BY <1>1
    <3> HIDE DEF own
    <3>2. ASSUME NEW q \in Pids PROVE recs'[q] \in ProcessRecord \cup {None}
      BY <1>3, <1>4, <1>5, <1>6, <1>7
    <3> QED
      BY <3>1, <3>2 DEF Records
  <2>2. kernel' \in [Pids -> Groups \cup {None}]
    <3>1. ASSUME NEW pr \in ProcessRecord, NEW k \in Groups \cup {None}, NEW mv
          PROVE  KernelGroup(pr, k, mv) \in Groups \cup {None}
      BY DEF KernelGroup, Written, ProcessRecord
    <3>2. \A q \in Pids : kernel[q] \in Groups \cup {None}
      BY DEF TypeOK
    <3>3. kernel' = [q \in Pids |->
                       IF Follows(rs, hosts', q, M) THEN KernelGroup(follow(q), kernel[q], moved[q])
                       ELSE IF q \in M THEN KernelGroup(want[q], kernel[q], moved[q])
                       ELSE kernel[q]]
      BY <1>1 DEF want
    <3> HIDE DEF follow
    <3> QED
      BY <1>4, <1>6, <3>1, <3>2, <3>3
  <2>3. fresh' \subseteq Pids
    BY <1>1 DEF TypeOK
  <2> HIDE DEF own
  <2>4. ASSUME NEW p \in Pids PROVE recs'[p] = None <=> rs[p] = None
    <3>1. None \notin ProcessRecord
      BY CgroupAssumption
    <3> QED
      BY <1>4, <1>5, <1>6, <1>7, <3>1
  <2>5. ASSUME NEW p \in Pids, rs[p] # None
        PROVE  recs'[p].type = rs[p].type /\ SameProcess(recs'[p], rs[p])
    <3>1. SameProcess(recs'[p], rs[p])
      <4>1. CASE Follows(rs, hosts', p, M)
        BY <1>6, <4>1
      <4>2. CASE ~Follows(rs, hosts', p, M) /\ p \in M
        BY <1>4, <1>7, <4>2
      <4>3. CASE ~Follows(rs, hosts', p, M) /\ p \notin M
        <5>1. recs'[p] = rs[p]
          BY <1>5, <1>7, <4>3
        <5> QED
          BY <5>1 DEF SameProcess
      <4> QED
        BY <4>1, <4>2, <4>3
    <3> QED
      BY <3>1 DEF SameProcess
  <2>6. ASSUME NEW p \in Pids, rs[p] # None, rs[p].type \in Main
        PROVE  recs'[p].set = IF p \in M THEN ComputeProcessGroup(rs, focused', p, source)
                              ELSE rs[p].set
    BY <1>4, <1>5, <1>6, <1>7, <2>6
  <2>7. ASSUME NEW p \in Pids, ~Follows(rs, hosts', p, M)
        PROVE  IF p \in M THEN recs'[p].set = ComputeProcessGroup(rs, focused', p, source)
               ELSE recs'[p] = rs[p]
    BY <1>4, <1>5, <1>7, <2>7
  <2>8. ASSUME NEW p \in Pids, Follows(rs, hosts', p, M), ~Follows(rs, hosts', rs[p].hostPid, M)
        PROVE  recs'[p].set = recs'[rs[p].hostPid].cur
    <3>1. rs[p].hostPid \in Pids
      BY <2>8 DEF Follows
    <3> QED
      BY <1>6, <1>7, <2>8, <3>1
  <2>9. fresh' = IF source = "create" THEN fresh \ M ELSE fresh \cup M
    BY <1>1
  <2> QED
    BY <2>1, <2>2, <2>3, <2>4, <2>5, <2>6, <2>7, <2>8, <2>9 DEF AdjustedResult

-----------------------------------------------------------------------------
(* The invariant: FocusedIsTracked and TopAppIsFocused together are         *)
(* inductive, because a record that leaves pidsMap_ takes its focus along.  *)

Inv == TypeOK /\ FocusedIsTracked /\ TopAppIsFocused

(* A handler that ends with AdjustProcessGroup of M on records rs keeps the *)
(* invariant if what it did before left the records together.               *)
LEMMA AdjustedInv ==
  ASSUME Inv, NEW rs \in Records, NEW M \in SUBSET Pids, NEW source,
         \A p \in M : rs[p] # None, Adjusted(rs, M, source),
         phase' \in [Pids -> {"new", "started", "known", "dead"}],
         apps' \subseteq Uids, hidden' \subseteq apps', timers' \subseteq Pids,
         focused' \in [Uids -> Pids \cup {None}], hosts' \in [Uids -> SUBSET Pids],
         \A p \in Pids : rs[p] # None => UidOf[p] \in apps',
         \A u \in Uids : hosts'[u] # {} => u \in apps',
         \A u \in Uids : focused'[u] # None =>
                           UidOf[focused'[u]] = u /\ rs[focused'[u]] # None,
         \A p \in Pids \ M : (rs[p] # None /\ rs[p].type \in Main /\ rs[p].set = "SP_TOP_APP")
                               => focused'[UidOf[p]] = p
  PROVE  Inv'
<1>0. TypeOK
  BY DEF Inv
<1>1. AdjustedResult(rs, M, source)
  BY <1>0, AdjustedFacts
<1>2. TypeOK'
  BY <1>1 DEF TypeOK, Records, AdjustedResult
<1>3. FocusedIsTracked'
  BY <1>1 DEF FocusedIsTracked, AdjustedResult
<1>4. ASSUME NEW p \in Pids, recs'[p] # None, recs'[p].type \in Main,
             recs'[p].set = "SP_TOP_APP"
      PROVE  focused'[UidOf[p]] = p
  <2>1. rs[p] # None /\ rs[p].type \in Main
    BY <1>1, <1>4 DEF AdjustedResult
  <2>2. CASE p \in M
    <3>1. ComputeProcessGroup(rs, focused', p, source) = "SP_TOP_APP"
      BY <1>1, <1>4, <2>1, <2>2 DEF AdjustedResult
    <3> QED
      BY <2>1, <3>1 DEF ComputeProcessGroup, ByActivity, ByState, Main
  <2>3. CASE p \notin M
    BY <1>1, <1>4, <2>1, <2>3 DEF AdjustedResult
  <2> QED
    BY <2>2, <2>3
<1> QED
  BY <1>2, <1>3, <1>4 DEF Inv, TopAppIsFocused

LEMMA NewRecordType == NewRecord \in ProcessRecord /\ NewRecord.set # "SP_TOP_APP"
  BY DEF NewRecord, ProcessRecord, UPPER, Main

(* GetProcessRecordNonNull makes at most the record of p.                   *)
LEMMA NonNull ==
  ASSUME TypeOK, NEW p \in Pids, NEW rs, rs = GetProcessRecordNonNull(recs, p)
  PROVE  /\ rs \in Records /\ rs[p] \in ProcessRecord /\ rs[p] # None
         /\ \A q \in Pids : q # p => rs[q] = recs[q]
         /\ rs[p] = recs[p] \/ rs[p] = NewRecord
<1>1. None \notin ProcessRecord
  BY CgroupAssumption
<1> QED
  BY <1>1, NewRecordType DEF GetProcessRecordNonNull, TypeOK, Records

(* A handler that leaves the focus alone, makes sure of the application,    *)
(* changes or makes the record of p and adjusts M.                          *)
LEMMA OneAdjusted ==
  ASSUME Inv, NEW p \in Pids, NEW M \in SUBSET Pids, NEW source,
         NEW rs \in Records, \A q \in M : rs[q] # None, rs[p] # None,
         \A q \in Pids : q # p => rs[q] = recs[q],
         p \in M \/ rs[p] = recs[p] \/ rs[p] = NewRecord,
         Adjusted(rs, M, source),
         phase' \in [Pids -> {"new", "started", "known", "dead"}],
         apps' = apps \cup {UidOf[p]}, UNCHANGED <<focused, timers>>,
         hidden' \subseteq apps', hosts' \in [Uids -> SUBSET Pids],
         \A u \in Uids : hosts'[u] # {} => u \in apps'
  PROVE  Inv'
<1>1. UidOf[p] \in Uids
  BY CgroupAssumption
<1>2. apps' \subseteq Uids /\ timers' \subseteq Pids /\ focused' \in [Uids -> Pids \cup {None}]
  BY <1>1 DEF Inv, TypeOK
<1>3. \A q \in Pids : rs[q] # None => UidOf[q] \in apps'
  BY DEF Inv, FocusedIsTracked
<1>4. \A u \in Uids : focused'[u] # None =>
                        UidOf[focused'[u]] = u /\ rs[focused'[u]] # None
  BY DEF Inv, FocusedIsTracked, TypeOK
<1>5. \A q \in Pids \ M : (rs[q] # None /\ rs[q].type \in Main /\ rs[q].set = "SP_TOP_APP")
                            => focused'[UidOf[q]] = q
  BY NewRecordType DEF Inv, TopAppIsFocused
<1> QED
  BY <1>2, <1>3, <1>4, <1>5, AdjustedInv

(* The handlers that end with AdjustProcessGroup of the process itself and  *)
(* make the records they need.                                              *)
LEMMA MakingHandlers ==
  ASSUME Inv, NEW p \in Pids,
         \/ \E s \in {"other", "foreground", "background"}, pl \in BOOLEAN :
              HandleProcessStateChanged(p, s, pl)
         \/ \E a \in Abilities : HandleAbilityStateChanged(p, a)
         \/ HandleContinuousTaskUpdate(p)
         \/ \E w \in Windows : HandleWindowVisible(p, w)
         \/ \E preload \in BOOLEAN : HandleProcessCreated(p, preload)
  PROVE  Inv'
<1> DEFINE nn == GetProcessRecordNonNull(recs, p)
<1>0. TypeOK /\ p \in {p} /\ {p} \in SUBSET Pids
  BY DEF Inv
<1>1. /\ nn \in Records /\ nn[p] \in ProcessRecord /\ nn[p] # None
      /\ \A q \in Pids : q # p => nn[q] = recs[q]
      /\ nn[p] = recs[p] \/ nn[p] = NewRecord
  BY <1>0, NonNull
<1> HIDE DEF nn
<1>2. None \notin ProcessRecord
  BY CgroupAssumption
<1>3. ASSUME NEW pr \in ProcessRecord, NEW source, Adjusted([nn EXCEPT ![p] = pr], {p}, source),
             phase' \in [Pids -> {"new", "started", "known", "dead"}],
             GetAppRecordNonNull(UidOf[p]), UNCHANGED <<focused, hidden, timers>>,
             hosts' \in [Uids -> SUBSET Pids],
             \A u \in Uids : hosts'[u] = hosts[u] \/ u = UidOf[p]
      PROVE  Inv'
  <2> DEFINE rs == [nn EXCEPT ![p] = pr]
  <2>1. rs \in Records /\ rs[p] # None /\ \A q \in Pids : q # p => rs[q] = recs[q]
    BY <1>1, <1>2 DEF Records
  <2>2. apps' = apps \cup {UidOf[p]} /\ hidden' \subseteq apps'
    BY <1>0, <1>3 DEF GetAppRecordNonNull, TypeOK
  <2>4. \A u \in Uids : hosts'[u] # {} => u \in apps'
    BY <1>3, <2>2 DEF Inv, FocusedIsTracked
  <2> HIDE DEF rs
  <2>3. Adjusted(rs, {p}, source)
    BY <1>3 DEF rs
  <2> QED
    BY <1>0, <1>3, <2>1, <2>2, <2>3, <2>4, OneAdjusted
<1>4. ASSUME NEW s \in {"other", "foreground", "background"}, NEW pl \in BOOLEAN,
             HandleProcessStateChanged(p, s, pl)
      PROVE  Inv'
  <2> DEFINE pr == [nn[p] EXCEPT !.state = s]
  <2>1. pr \in ProcessRecord /\ pr.type = nn[p].type /\ pr.set = nn[p].set
    BY <1>1 DEF ProcessRecord
  <2>2. CASE s = "background" /\ pl
    <3>1. recs' = [nn EXCEPT ![p] = pr]
      BY <1>4, <2>2 DEF HandleProcessStateChanged, nn
    <3>2. /\ recs' \in Records /\ recs'[p] # None /\ recs'[p].type = nn[p].type
          /\ recs'[p].set = nn[p].set /\ \A q \in Pids : q # p => recs'[q] = recs[q]
      BY <1>1, <1>2, <2>1, <3>1 DEF Records
    <3>3. /\ fresh' = fresh \ {p} /\ apps' = apps \cup {UidOf[p]}
          /\ UNCHANGED <<phase, focused, hosts, hidden, timers, kernel>>
      BY <1>4, <2>2 DEF HandleProcessStateChanged, Event, GetAppRecordNonNull
    <3>4. UidOf[p] \in Uids
      BY CgroupAssumption
    <3>5. TypeOK'
      BY <1>0, <3>2, <3>3, <3>4 DEF TypeOK, Records
    <3>6. FocusedIsTracked'
      BY <3>2, <3>3 DEF Inv, TypeOK, FocusedIsTracked
    <3>7. TopAppIsFocused'
      BY <1>1, <3>2, <3>3, NewRecordType DEF Inv, TopAppIsFocused
    <3> QED
      BY <3>5, <3>6, <3>7 DEF Inv
  <2>3. CASE ~(s = "background" /\ pl)
    <3>1. Adjusted([nn EXCEPT ![p] = pr], {p}, "state")
      BY <1>4, <2>3 DEF HandleProcessStateChanged, nn
    <3>2. /\ UNCHANGED <<phase, focused, hosts, hidden, timers>>
          /\ GetAppRecordNonNull(UidOf[p])
      BY <1>4 DEF HandleProcessStateChanged, Event
    <3> QED
      BY <1>0, <1>3, <2>1, <3>1, <3>2 DEF TypeOK
  <2> QED
    BY <2>2, <2>3
<1>5. ASSUME NEW a \in Abilities, HandleAbilityStateChanged(p, a) PROVE Inv'
  <2> DEFINE pr == [nn[p] EXCEPT !.abilities = @ \cup {a}]
  <2>1. pr \in ProcessRecord
    BY <1>1 DEF ProcessRecord
  <2>2. Adjusted([nn EXCEPT ![p] = pr], {p}, "ability")
    BY <1>5 DEF HandleAbilityStateChanged, nn
  <2>3. UNCHANGED <<phase, focused, hosts, hidden, timers>> /\ GetAppRecordNonNull(UidOf[p])
    BY <1>5 DEF HandleAbilityStateChanged, Event
  <2> QED
    BY <1>0, <1>3, <2>1, <2>2, <2>3 DEF TypeOK
<1>6. CASE HandleContinuousTaskUpdate(p)
  <2>1. nn = [nn EXCEPT ![p] = nn[p]]
    BY <1>1 DEF Records
  <2>2. Adjusted([nn EXCEPT ![p] = nn[p]], {p}, "report")
    BY <1>6, <2>1 DEF HandleContinuousTaskUpdate, nn
  <2>3. UNCHANGED <<phase, focused, hosts, hidden, timers>> /\ GetAppRecordNonNull(UidOf[p])
    BY <1>6 DEF HandleContinuousTaskUpdate, Event
  <2> QED
    BY <1>0, <1>1, <1>3, <2>2, <2>3 DEF TypeOK
<1>7. ASSUME NEW w \in Windows, HandleWindowVisible(p, w) PROVE Inv'
  <2> DEFINE pr == [nn[p] EXCEPT !.visible = @ \cup {w}]
  <2>1. pr \in ProcessRecord
    BY <1>1 DEF ProcessRecord
  <2>2. UNCHANGED <<phase, focused, hosts, hidden, timers>> /\ GetAppRecordNonNull(UidOf[p])
    BY <1>7 DEF HandleWindowVisible, Event
  <2>3. CASE w \notin nn[p].visible
    <3>1. Adjusted([nn EXCEPT ![p] = pr], {p}, "visibility")
      BY <1>7, <2>3 DEF HandleWindowVisible, nn
    <3> QED
      BY <1>0, <1>3, <2>1, <2>2, <3>1 DEF TypeOK
  <2>4. CASE w \in nn[p].visible
    <3>1. UNCHANGED <<recs, kernel, fresh>>
      BY <1>7, <2>4 DEF HandleWindowVisible, nn
    <3>2. UidOf[p] \in Uids
      BY CgroupAssumption
    <3> QED
      BY <2>2, <3>1, <3>2
      DEF Inv, TypeOK, FocusedIsTracked, TopAppIsFocused, GetAppRecordNonNull
  <2> QED
    BY <2>3, <2>4
<1>8. ASSUME NEW preload \in BOOLEAN, HandleProcessCreated(p, preload) PROVE Inv'
  <2> DEFINE pr == [nn[p] EXCEPT !.type = TypeOf[p],
                                 !.hostPid = IF TypeOf[p] \in Attached THEN HostOf[p] ELSE @]
  <2>0. /\ TypeOf[p] \in Main \cup Attached
        /\ TypeOf[p] \in Attached => HostOf[p] \in Pids
    BY CgroupAssumption DEF Main, Attached
  <2>1. pr \in ProcessRecord
    BY <1>1, <2>0 DEF ProcessRecord
  <2>2. Adjusted([nn EXCEPT ![p] = pr], {p}, IF preload THEN "preload" ELSE "create")
    BY <1>8 DEF HandleProcessCreated, nn
  <2>3. /\ UNCHANGED <<focused, hidden, timers>> /\ GetAppRecordNonNull(UidOf[p])
        /\ phase' = [phase EXCEPT ![p] = "known"]
        /\ hosts' = IF TypeOf[p] \in Attached
                    THEN [hosts EXCEPT ![UidOf[p]] = @ \cup {HostOf[p]}] ELSE hosts
    BY <1>8 DEF HandleProcessCreated
  <2>4. /\ phase' \in [Pids -> {"new", "started", "known", "dead"}]
        /\ hosts' \in [Uids -> SUBSET Pids]
        /\ \A u \in Uids : hosts'[u] = hosts[u] \/ u = UidOf[p]
    BY <1>0, <2>0, <2>3 DEF TypeOK
  <2> QED
    BY <1>3, <2>1, <2>2, <2>3, <2>4
<1> QED
  BY <1>4, <1>5, <1>6, <1>7, <1>8

(* The handlers of events about a process or an application that is known.  *)
LEMMA KnownHandlers ==
  ASSUME Inv, NEW p \in Pids,
         \/ \E a \in Abilities : HandleAbilityTerminated(p, a)
         \/ \E w \in Windows : HandleWindowHidden(p, w)
         \/ HandleReport(p)
         \/ \E hide \in BOOLEAN : HandleReportCosmicCubeState(p, hide)
         \/ HandleWebviewScreenCapture(p)
         \/ \E accepted \in BOOLEAN : HandleRenderReport(p, accepted)
  PROVE  Inv'
<1> USE DEF app
<1>0. TypeOK /\ recs \in Records /\ {p} \in SUBSET Pids
  BY DEF Inv, TypeOK, Records
<1>1. None \notin ProcessRecord /\ UidOf[p] \in Uids
  BY CgroupAssumption
<1>2. recs[p] # None => recs[p] \in ProcessRecord /\ apps = apps \cup {UidOf[p]}
  BY DEF Inv, TypeOK, FocusedIsTracked
<1>3. ASSUME NEW pr \in ProcessRecord, NEW source, recs[p] # None,
             Adjusted([recs EXCEPT ![p] = pr], {p}, source),
             UNCHANGED <<phase, apps, focused, hosts, timers>>, hidden' \subseteq apps
      PROVE  Inv'
  <2> DEFINE rs == [recs EXCEPT ![p] = pr]
  <2>1. rs \in Records /\ rs[p] # None /\ \A q \in Pids : q # p => rs[q] = recs[q]
    BY <1>0, <1>1 DEF Records
  <2>2. apps' = apps \cup {UidOf[p]} /\ hidden' \subseteq apps'
    BY <1>2, <1>3
  <2> HIDE DEF rs
  <2>3. Adjusted(rs, {p}, source)
    BY <1>3 DEF rs
  <2>4. /\ phase' \in [Pids -> {"new", "started", "known", "dead"}]
        /\ hosts' \in [Uids -> SUBSET Pids]
    BY <1>0, <1>3 DEF TypeOK
  <2>5. \A q \in {p} : rs[q] # None
    BY <2>1
  <2>6. \A v \in Uids : hosts'[v] # {} => v \in apps'
    BY <1>3 DEF Inv, FocusedIsTracked
  <2> QED
    BY <1>0, <1>3, <2>1, <2>2, <2>3, <2>4, <2>5, <2>6, OneAdjusted
<1>4. ASSUME NEW a \in Abilities, HandleAbilityTerminated(p, a) PROVE Inv'
  <2> DEFINE pr == [recs[p] EXCEPT !.abilities = @ \ {a}]
  <2>1. recs[p] # None /\ UNCHANGED <<phase, apps, focused, hosts, hidden, timers>>
    BY <1>4 DEF HandleAbilityTerminated, Event
  <2>2. pr \in ProcessRecord
    BY <1>2, <2>1 DEF ProcessRecord
  <2>3. Adjusted([recs EXCEPT ![p] = pr], {p}, "ability")
    BY <1>4 DEF HandleAbilityTerminated
  <2> QED
    BY <1>0, <1>3, <2>1, <2>2, <2>3 DEF TypeOK
<1>5. ASSUME NEW w \in Windows, HandleWindowHidden(p, w) PROVE Inv'
  <2> DEFINE pr == [recs[p] EXCEPT !.visible = @ \ {w}]
  <2>1. recs[p] # None /\ UNCHANGED <<phase, apps, focused, hosts, hidden, timers>>
    BY <1>5 DEF HandleWindowHidden, Event
  <2>2. pr \in ProcessRecord
    BY <1>2, <2>1 DEF ProcessRecord
  <2>3. Adjusted([recs EXCEPT ![p] = pr], {p}, "visibility")
    BY <1>5 DEF HandleWindowHidden
  <2> QED
    BY <1>0, <1>3, <2>1, <2>2, <2>3 DEF TypeOK
<1>6. recs = [recs EXCEPT ![p] = recs[p]]
  BY <1>0 DEF Records
<1>7. CASE HandleReport(p)
  <2>1. recs[p] # None /\ UNCHANGED <<phase, apps, focused, hosts, hidden, timers>>
    BY <1>7 DEF HandleReport, Event
  <2>2. Adjusted([recs EXCEPT ![p] = recs[p]], {p}, "report")
    BY <1>6, <1>7 DEF HandleReport
  <2> QED
    BY <1>0, <1>2, <1>3, <2>1, <2>2 DEF TypeOK
<1>8. ASSUME NEW hide \in BOOLEAN, HandleReportCosmicCubeState(p, hide) PROVE Inv'
  <2>1. recs[p] # None /\ UNCHANGED <<phase, apps, focused, hosts, timers>>
    BY <1>8 DEF HandleReportCosmicCubeState, Event
  <2>2. hidden' \subseteq apps
    BY <1>0, <1>2, <1>8, <2>1 DEF HandleReportCosmicCubeState, TypeOK
  <2>3. CASE recs[p].type = "NORMAL"
    <3>1. Adjusted([recs EXCEPT ![p] = recs[p]], {p}, "state")
      BY <1>6, <1>8, <2>3 DEF HandleReportCosmicCubeState
    <3> QED
      BY <1>2, <1>3, <2>1, <2>2, <3>1
  <2>4. CASE recs[p].type # "NORMAL"
    <3>1. UNCHANGED <<recs, kernel, fresh>>
      BY <1>8, <2>4 DEF HandleReportCosmicCubeState
    <3> QED
      BY <2>1, <2>2, <3>1 DEF Inv, TypeOK, FocusedIsTracked, TopAppIsFocused
  <2> QED
    BY <2>3, <2>4
<1> DEFINE nn == GetProcessRecordNonNull(recs, p)
<1>9. /\ nn \in Records /\ nn[p] \in ProcessRecord /\ nn[p] # None
      /\ \A q \in Pids : q # p => nn[q] = recs[q]
      /\ nn[p] = recs[p] \/ nn[p] = NewRecord
  BY <1>0, NonNull
<1> HIDE DEF nn
<1>10. ASSUME NEW q \in Pids, nn[q] # None, Adjusted(nn, {q}, "report"),
              UidOf[p] \in apps, UNCHANGED <<phase, apps, focused, hosts, hidden, timers>>
       PROVE  Inv'
  <2>1. apps' = apps \cup {UidOf[p]} /\ hidden' \subseteq apps'
    BY <1>0, <1>10 DEF TypeOK
  <2>2. /\ phase' \in [Pids -> {"new", "started", "known", "dead"}]
        /\ hosts' \in [Uids -> SUBSET Pids]
    BY <1>0, <1>10 DEF TypeOK
  <2>3. {q} \in SUBSET Pids /\ \A x \in {q} : nn[x] # None
    BY <1>10
  <2>4. \A v \in Uids : hosts'[v] # {} => v \in apps'
    BY <1>10 DEF Inv, FocusedIsTracked
  <2> QED
    BY <1>9, <1>10, <2>1, <2>2, <2>3, <2>4, OneAdjusted
<1>11. CASE HandleWebviewScreenCapture(p)
  <2>1. Adjusted(nn, {p}, "report")
    BY <1>11 DEF HandleWebviewScreenCapture, nn
  <2>2. UidOf[p] \in apps /\ UNCHANGED <<phase, apps, focused, hosts, hidden, timers>>
    BY <1>11 DEF HandleWebviewScreenCapture, Event
  <2> QED
    BY <1>9, <1>10, <2>1, <2>2
<1>12. ASSUME NEW accepted \in BOOLEAN, HandleRenderReport(p, accepted) PROVE Inv'
  <2> DEFINE h == nn[p].hostPid
  <2>1. UidOf[p] \in apps /\ UNCHANGED <<phase, apps, focused, hosts, hidden, timers>>
    BY <1>12 DEF HandleRenderReport, Event
  <2>2. CASE accepted /\ h # None /\ nn[h] # None
    <3>1. Adjusted(nn, {h}, "report")
      BY <1>12, <2>2 DEF HandleRenderReport, nn
    <3>2. h \in Pids
      BY <1>9, <2>2 DEF ProcessRecord
    <3> QED
      BY <1>10, <2>1, <2>2, <3>1, <3>2
  <2>3. CASE ~(accepted /\ h # None /\ nn[h] # None)
    <3>1. recs' = nn /\ UNCHANGED <<kernel, fresh>>
      BY <1>12, <2>3 DEF HandleRenderReport, nn
    <3>2. TypeOK'
      BY <1>0, <1>9, <2>1, <3>1 DEF TypeOK, Records
    <3>3. FocusedIsTracked'
      BY <1>9, <2>1, <3>1 DEF Inv, TypeOK, FocusedIsTracked
    <3>4. TopAppIsFocused'
      BY <1>9, <2>1, <3>1, NewRecordType DEF Inv, TopAppIsFocused
    <3> QED
      BY <3>2, <3>3, <3>4 DEF Inv
  <2> QED
    BY <2>2, <2>3
<1> QED
  BY <1>4, <1>5, <1>7, <1>8, <1>11, <1>12

(* The handlers that move the focus adjust every main process of the        *)
(* application.                                                             *)
LEMMA FocusHandlers ==
  ASSUME Inv, NEW p \in Pids, HandleFocusedWindow(p) \/ HandleUnfocusedWindow(p)
  PROVE  Inv'
<1> DEFINE u == UidOf[p]
<1>0. TypeOK /\ recs \in Records /\ u \in Uids /\ UidOf \in [Pids -> Uids]
  BY CgroupAssumption DEF Inv, TypeOK, Records
<1>1. ASSUME NEW rs \in Records, NEW source, AdjustAllProcessGroup(rs, u, source),
             rs[p] # None, \A q \in Pids : q # p => rs[q] = recs[q],
             rs[p] = recs[p] \/ rs[p] = NewRecord,
             apps' = apps \cup {u}, UNCHANGED <<phase, hosts, hidden, timers>>,
             \E x \in {p, None, focused[u]} : focused' = [focused EXCEPT ![u] = x]
      PROVE  Inv'
  <2> DEFINE M == Mains(rs, u)
  <2>1. M \in SUBSET Pids /\ \A q \in M : rs[q] # None
    BY DEF Mains
  <2>2. Adjusted(rs, M, source)
    BY <1>1 DEF AdjustAllProcessGroup
  <2>3. focused' \in [Uids -> Pids \cup {None}]
    BY <1>0, <1>1 DEF TypeOK
  <2>4. \A q \in Pids : rs[q] # None => UidOf[q] \in apps'
    BY <1>1 DEF Inv, FocusedIsTracked
  <2>5. ASSUME NEW v \in Uids, focused'[v] # None
        PROVE  UidOf[focused'[v]] = v /\ rs[focused'[v]] # None
    <3>1. focused'[v] = focused[v] \/ (v = u /\ focused'[v] = p)
      BY <1>0, <1>1, <2>5 DEF TypeOK
    <3>2. CASE focused'[v] = focused[v]
      <4>1. UidOf[focused[v]] = v /\ recs[focused[v]] # None /\ focused[v] \in Pids
        BY <1>0, <2>5, <3>2 DEF Inv, FocusedIsTracked, TypeOK
      <4> QED
        BY <1>1, <3>2, <4>1
    <3> QED
      BY <1>1, <3>1, <3>2
  <2>6. ASSUME NEW q \in Pids \ M, rs[q] # None, rs[q].type \in Main, rs[q].set = "SP_TOP_APP"
        PROVE  focused'[UidOf[q]] = q
    <3>1. UidOf[q] # u /\ UidOf[q] \in Uids
      BY <1>0, <2>6 DEF Mains
    <3>2. rs[q] = recs[q]
      BY <1>1, <3>1
    <3>3. focused'[UidOf[q]] = focused[UidOf[q]]
      BY <1>0, <1>1, <3>1 DEF TypeOK
    <3> QED
      BY <2>6, <3>2, <3>3 DEF Inv, TopAppIsFocused
  <2>7. /\ phase' \in [Pids -> {"new", "started", "known", "dead"}]
        /\ apps' \subseteq Uids /\ hidden' \subseteq apps' /\ timers' \subseteq Pids
        /\ hosts' \in [Uids -> SUBSET Pids]
    BY <1>0, <1>1 DEF TypeOK
  <2>8. \A v \in Uids : hosts'[v] # {} => v \in apps'
    BY <1>1 DEF Inv, FocusedIsTracked
  <2> HIDE DEF M
  <2> QED
    BY <2>1, <2>2, <2>3, <2>4, <2>5, <2>6, <2>7, <2>8, AdjustedInv
<1>2. CASE HandleFocusedWindow(p)
  <2> DEFINE nn == GetProcessRecordNonNull(recs, p)
  <2>1. /\ nn \in Records /\ nn[p] \in ProcessRecord /\ nn[p] # None
        /\ \A q \in Pids : q # p => nn[q] = recs[q]
        /\ nn[p] = recs[p] \/ nn[p] = NewRecord
    BY <1>0, NonNull
  <2>2. /\ AdjustAllProcessGroup(nn, u, "focus") /\ apps' = apps \cup {u}
        /\ UNCHANGED <<phase, hosts, hidden, timers>>
        /\ focused' = [focused EXCEPT ![u] = p]
    BY <1>2 DEF HandleFocusedWindow, Event, GetAppRecordNonNull
  <2> HIDE DEF nn
  <2> QED
    BY <1>1, <2>1, <2>2
<1>3. CASE HandleUnfocusedWindow(p)
  <2>1. /\ AdjustAllProcessGroup(recs, u, "unfocus") /\ recs[p] # None
        /\ UNCHANGED <<phase, apps, hosts, hidden, timers>>
        /\ focused' = IF focused[u] = p THEN [focused EXCEPT ![u] = None] ELSE focused
    BY <1>3 DEF HandleUnfocusedWindow, Event
  <2>2. apps' = apps \cup {u}
    BY <2>1 DEF Inv, FocusedIsTracked
  <2>3. \E x \in {p, None, focused[u]} : focused' = [focused EXCEPT ![u] = x]
    BY <1>0, <2>1 DEF TypeOK
  <2> QED
    BY <1>0, <1>1, <2>1, <2>2, <2>3
<1> QED
  BY <1>2, <1>3

(* The end of processes and applications, reloading and the restart.        *)
LEMMA RemovingHandlers ==
  ASSUME Inv,
         \/ \E p \in Pids : HandleProcessDied(p)
         \/ \E u \in Uids : HandleOnAppStopped(u)
         \/ \E S, C \in SUBSET Pids : HandleAbilityAdded(S, C)
         \/ Restart
  PROVE  Inv'
<1> USE DEF app
<1>0. TypeOK /\ recs \in Records /\ UidOf \in [Pids -> Uids] /\ None \notin ProcessRecord
  BY CgroupAssumption DEF Inv, TypeOK, Records
<1>1. ASSUME NEW p \in Pids, HandleProcessDied(p) PROVE Inv'
  <2>1. phase' = [phase EXCEPT ![p] = "dead"] /\ kernel' = [kernel EXCEPT ![p] = None]
        /\ UNCHANGED timers
    BY <1>1 DEF HandleProcessDied
  <2>2. CASE UidOf[p] \notin apps
    <3>1. UNCHANGED <<apps, focused, hosts, hidden, recs, fresh>>
      BY <1>1, <2>2 DEF HandleProcessDied
    <3> QED
      BY <2>1, <3>1 DEF Inv, TypeOK, FocusedIsTracked, TopAppIsFocused
  <2>3. CASE UidOf[p] \in apps
    <3> DEFINE u == UidOf[p]
               rest == [recs EXCEPT ![p] = None]
               gone == \A q \in Pids : UidOf[q] = u => rest[q] = None
    <3>1. /\ recs' = rest
          /\ apps' = IF gone THEN apps \ {u} ELSE apps
          /\ focused' = IF gone \/ focused[u] = p THEN [focused EXCEPT ![u] = None] ELSE focused
          /\ hosts' = [hosts EXCEPT ![u] = IF gone THEN {} ELSE IF recs[p] = None THEN @ ELSE @ \ {p}]
          /\ hidden' = IF gone THEN hidden \ {u} ELSE hidden
          /\ fresh' = fresh \ {p}
      BY <1>1, <2>3 DEF HandleProcessDied, RemoveProcessRecord
    <3>2. rest \in Records /\ rest[p] = None /\ \A q \in Pids : q # p => rest[q] = recs[q]
      BY <1>0 DEF Records
    <3> HIDE DEF rest
    <3>3. TypeOK'
      BY <1>0, <2>1, <3>1, <3>2 DEF TypeOK, Records
    <3>4. FocusedIsTracked'
      <4>1. \A q \in Pids : recs'[q] # None => UidOf[q] \in apps'
        BY <3>1, <3>2 DEF Inv, FocusedIsTracked
      <4>2. ASSUME NEW v \in Uids, focused'[v] # None
            PROVE  UidOf[focused'[v]] = v /\ recs'[focused'[v]] # None
        <5>1. focused'[v] = focused[v] /\ focused[v] \in Pids
          BY <1>0, <3>1, <4>2 DEF TypeOK
        <5>2. UidOf[focused[v]] = v /\ recs[focused[v]] # None
          BY <4>2, <5>1 DEF Inv, FocusedIsTracked
        <5>3. focused[v] # p
          BY <1>0, <3>1, <4>2, <5>1, <5>2 DEF TypeOK
        <5> QED
          BY <3>1, <3>2, <5>1, <5>2, <5>3
      <4>3. ASSUME NEW v \in Uids, hosts'[v] # {} PROVE v \in apps'
        <5>1. hosts[v] # {} /\ ~(gone /\ v = u)
          BY <1>0, <3>1, <4>3 DEF TypeOK
        <5> QED
          BY <3>1, <5>1 DEF Inv, FocusedIsTracked
      <4> QED
        BY <4>1, <4>2, <4>3 DEF FocusedIsTracked
    <3>5. ASSUME NEW q \in Pids, recs'[q] # None, recs'[q].type \in Main,
                 recs'[q].set = "SP_TOP_APP"
          PROVE  focused'[UidOf[q]] = q
      <4>1. q # p /\ recs'[q] = recs[q] /\ focused[UidOf[q]] = q
        BY <3>1, <3>2, <3>5 DEF Inv, TopAppIsFocused
      <4>2. ~(gone /\ UidOf[q] = u)
        BY <3>1, <3>5
      <4>3. UidOf[q] \in Uids
        BY <1>0
      <4> QED
        BY <1>0, <3>1, <4>1, <4>2, <4>3 DEF TypeOK
    <3> QED
      BY <3>3, <3>4, <3>5 DEF Inv, TopAppIsFocused
  <2> QED
    BY <2>2, <2>3
<1>2. ASSUME NEW u \in Uids, HandleOnAppStopped(u) PROVE Inv'
  <2>1. TypeOK'
    BY <1>0, <1>2 DEF HandleOnAppStopped, TypeOK
  <2>2. \A p \in Pids : recs'[p] = IF UidOf[p] = u THEN None ELSE recs[p]
    BY <1>2 DEF HandleOnAppStopped
  <2>3. /\ focused' = [focused EXCEPT ![u] = None] /\ apps' = apps \ {u}
        /\ hosts' = [hosts EXCEPT ![u] = {}]
    BY <1>2 DEF HandleOnAppStopped
  <2>4. FocusedIsTracked'
    BY <1>0, <2>2, <2>3 DEF Inv, TypeOK, FocusedIsTracked
  <2>5. TopAppIsFocused'
    BY <1>0, <2>2, <2>3 DEF Inv, TypeOK, TopAppIsFocused
  <2> QED
    BY <2>1, <2>4, <2>5 DEF Inv
<1>3. ASSUME NEW S \in SUBSET Pids, NEW C \in SUBSET Pids, HandleAbilityAdded(S, C) PROVE Inv'
  <2> DEFINE made(p) == IF recs[p] = None THEN NewRecord ELSE recs[p]
             child(p) == [made(p) EXCEPT !.type = "CHILD", !.hostPid = HostOf[p]]
  <2>1. /\ UNCHANGED <<phase, focused, hidden, timers, kernel, fresh>>
        /\ apps' = apps \cup {UidOf[p] : p \in S \cup C}
        /\ recs' = [p \in Pids |-> IF p \in C THEN child(p)
                                   ELSE IF p \in S THEN made(p) ELSE recs[p]]
        /\ hosts' = [u \in Uids |-> hosts[u] \cup {HostOf[p] : p \in {c \in C : UidOf[c] = u}}]
        /\ \A p \in C : TypeOf[p] = "CHILD"
    BY <1>3 DEF HandleAbilityAdded
  <2>2. ASSUME NEW p \in C PROVE HostOf[p] \in Pids
    BY <2>1, CgroupAssumption DEF Main
  <2>3. ASSUME NEW p \in Pids
        PROVE  made(p) \in ProcessRecord /\ made(p) # None
    BY <1>0, NewRecordType DEF Records
  <2>4. ASSUME NEW p \in C
        PROVE  child(p) \in ProcessRecord /\ child(p) # None /\ child(p).type = "CHILD"
    <3>1. p \in Pids /\ made(p) \in ProcessRecord /\ HostOf[p] \in Pids
      BY <2>2, <2>3
    <3> HIDE DEF made
    <3>2. child(p) \in ProcessRecord /\ child(p).type = "CHILD"
      BY <3>1 DEF ProcessRecord, Attached
    <3> QED
      BY <1>0, <3>2
  <2> HIDE DEF child
  <2>5. recs' \in Records
    <3> HIDE DEF made
    <3> QED
      BY <1>0, <2>1, <2>3, <2>4 DEF Records
  <2>6. hosts' \in [Uids -> SUBSET Pids]
    BY <1>0, <2>1, <2>2 DEF TypeOK
  <2>7. apps' \subseteq Uids /\ apps \subseteq apps'
    BY <1>0, <2>1 DEF TypeOK
  <2>8. TypeOK'
    BY <1>0, <2>1, <2>5, <2>6, <2>7 DEF TypeOK, Records
  <2>9. ASSUME NEW p \in Pids
        PROVE  /\ recs[p] # None => recs'[p] # None
               /\ recs'[p] # None => recs[p] # None \/ p \in S \cup C
               /\ (recs'[p] # None /\ recs'[p].type \in Main)
                     => recs'[p] = recs[p] \/ recs'[p] = NewRecord
    BY <1>0, <2>1, <2>3, <2>4 DEF Main
  <2>10. FocusedIsTracked'
    BY <2>1, <2>9 DEF Inv, TypeOK, FocusedIsTracked
  <2>11. TopAppIsFocused'
    BY <2>1, <2>9, NewRecordType DEF Inv, TopAppIsFocused
  <2> QED
    BY <2>8, <2>10, <2>11 DEF Inv
<1>4. CASE Restart
  BY <1>0, <1>4 DEF Restart, Inv, TypeOK, FocusedIsTracked, TopAppIsFocused
<1> QED
  BY <1>1, <1>2, <1>3, <1>4

(* The events that adjust no group, and the recovery of hidden applications. *)
LEMMA OtherHandlers ==
  ASSUME Inv,
         \/ \E p \in Pids : \/ Start(p) \/ HandleApplicationEvent(p) \/ CheckWebSubWinTaskStatus(p)
                            \/ \E start \in BOOLEAN : HandleReportWebSubWinTaskStatus(p, start)
         \/ HandleEmptyPayloadForCosmicCubeState
  PROVE  Inv'
<1> USE DEF app
<1>0. TypeOK /\ recs \in Records /\ UidOf \in [Pids -> Uids] /\ None \notin ProcessRecord
  BY CgroupAssumption DEF Inv, TypeOK, Records
<1>1. ASSUME NEW p \in Pids, Start(p) \/ HandleApplicationEvent(p) PROVE Inv'
  BY <1>0, <1>1
  DEF Start, HandleApplicationEvent, Event, GetAppRecordNonNull, Inv, TypeOK,
      FocusedIsTracked, TopAppIsFocused
<1>2. ASSUME NEW p \in Pids, NEW b \in BOOLEAN, recs[p] # None,
             recs' = [recs EXCEPT ![p].webSubWin = b], timers' \subseteq Pids,
             UNCHANGED <<phase, apps, focused, hosts, hidden, kernel, fresh>>
      PROVE  Inv'
  <2>1. recs[p] \in ProcessRecord
    BY <1>0, <1>2 DEF Records
  <2>2. /\ recs' \in Records
        /\ \A q \in Pids : q # p => recs'[q] = recs[q]
        /\ recs'[p] # None /\ recs'[p].set = recs[p].set /\ recs'[p].type = recs[p].type
    BY <1>0, <1>2, <2>1 DEF Records, ProcessRecord
  <2>3. TypeOK'
    BY <1>0, <1>2, <2>2 DEF TypeOK, Records
  <2>4. FocusedIsTracked'
    BY <1>2, <2>2 DEF Inv, TypeOK, FocusedIsTracked
  <2>5. TopAppIsFocused'
    BY <1>2, <2>2 DEF Inv, TopAppIsFocused
  <2> QED
    BY <2>3, <2>4, <2>5 DEF Inv
<1>3. ASSUME NEW p \in Pids, NEW start \in BOOLEAN, HandleReportWebSubWinTaskStatus(p, start)
      PROVE  Inv'
  <2>1. /\ recs[p] # None /\ recs' = [recs EXCEPT ![p].webSubWin = start]
        /\ UNCHANGED <<phase, apps, focused, hosts, hidden, kernel, fresh>>
    BY <1>3 DEF HandleReportWebSubWinTaskStatus, Event
  <2>2. timers' \subseteq Pids
    BY <1>0, <1>3 DEF HandleReportWebSubWinTaskStatus, TypeOK
  <2> QED
    BY <1>2, <2>1, <2>2
<1>4. ASSUME NEW p \in Pids, CheckWebSubWinTaskStatus(p) PROVE Inv'
  <2>1. /\ UNCHANGED <<phase, apps, focused, hosts, hidden, kernel, fresh>>
        /\ timers' \subseteq Pids
    BY <1>0, <1>4 DEF CheckWebSubWinTaskStatus, TypeOK
  <2>2. CASE recs[p] = None
    <3>1. recs' = recs
      BY <1>4, <2>2 DEF CheckWebSubWinTaskStatus
    <3> QED
      BY <2>1, <3>1 DEF Inv, TypeOK, FocusedIsTracked, TopAppIsFocused
  <2>3. CASE recs[p] # None
    BY <1>2, <1>4, <2>1, <2>3 DEF CheckWebSubWinTaskStatus
  <2> QED
    BY <2>2, <2>3
<1>5. CASE HandleEmptyPayloadForCosmicCubeState
  <2> DEFINE M == {p \in Pids : /\ recs[p] # None /\ recs[p].type = "NORMAL"
                                /\ UidOf[p] \in hidden}
  <2>1. /\ Adjusted(recs, M, "state") /\ hidden' = {}
        /\ UNCHANGED <<phase, apps, focused, hosts, timers>>
    BY <1>5 DEF HandleEmptyPayloadForCosmicCubeState
  <2>2. M \in SUBSET Pids /\ \A p \in M : recs[p] # None
    OBVIOUS
  <2> HIDE DEF M
  <2>3. /\ phase' \in [Pids -> {"new", "started", "known", "dead"}]
        /\ apps' \subseteq Uids /\ hidden' \subseteq apps' /\ timers' \subseteq Pids
        /\ focused' \in [Uids -> Pids \cup {None}] /\ hosts' \in [Uids -> SUBSET Pids]
    BY <1>0, <2>1 DEF TypeOK
  <2>4. /\ \A p \in Pids : recs[p] # None => UidOf[p] \in apps'
        /\ \A u \in Uids : focused'[u] # None =>
                             UidOf[focused'[u]] = u /\ recs[focused'[u]] # None
        /\ \A p \in Pids \ M :
             (recs[p] # None /\ recs[p].type \in Main /\ recs[p].set = "SP_TOP_APP")
                => focused'[UidOf[p]] = p
    BY <2>1 DEF Inv, FocusedIsTracked, TopAppIsFocused
  <2>5. \A v \in Uids : hosts'[v] # {} => v \in apps'
    BY <2>1 DEF Inv, FocusedIsTracked
  <2> QED
    BY <1>0, <2>1, <2>2, <2>3, <2>4, <2>5, AdjustedInv
<1> QED
  BY <1>1, <1>3, <1>4, <1>5

LEMMA InvInit == Init => Inv
  BY DEF Init, Inv, TypeOK, FocusedIsTracked, TopAppIsFocused

LEMMA InvStep == Inv /\ [Next]_vars => Inv'
<1> SUFFICES ASSUME Inv, [Next]_vars PROVE Inv'
  OBVIOUS
<1>1. ASSUME NEW p \in Pids, ProcessStep(p) PROVE Inv'
  BY <1>1, MakingHandlers, KnownHandlers, FocusHandlers, RemovingHandlers, OtherHandlers
  DEF ProcessStep
<1>2. CASE UNCHANGED vars
  BY <1>2 DEF vars, app, Inv, TypeOK, FocusedIsTracked, TopAppIsFocused
<1> QED
  BY <1>1, <1>2, RemovingHandlers, OtherHandlers DEF Next

(* Every variable keeps its type.                                           *)
THEOREM TypeCorrect == Spec => []TypeOK
<1>1. Inv => TypeOK
  BY DEF Inv
<1> QED
  BY InvInit, InvStep, <1>1, PTL DEF Spec

(* Whatever the order of events, with any number of processes and failing   *)
(* writes, uidsMap_, pidsMap_ and focusedProcess_ hang together.            *)
THEOREM RecordsConsistent == Spec => []FocusedIsTracked
<1>1. Inv => FocusedIsTracked
  BY DEF Inv
<1> QED
  BY InvInit, InvStep, <1>1, PTL DEF Spec

(* Only the focused process of an application asks for SP_TOP_APP.          *)
THEOREM OneTopApp == Spec => []TopAppIsFocused
<1>1. Inv => TopAppIsFocused
  BY DEF Inv
<1> QED
  BY InvInit, InvStep, <1>1, PTL DEF Spec
-----------------------------------------------------------------------------
(* The groups and the timers.  GroupIsCurrent and SubWinTaskIsTimed are     *)
(* inductive as they stand.  RenderFollowsHost is not: a render process     *)
(* must have its host in hostPidsSet_ whenever the host is adjusted.        *)

HostKnown(q) ==
  recs[q] # None =>
    /\ recs[q].type \in {"NORMAL", TypeOf[q]}
    /\ recs[q].type = "RENDER" =>
         /\ recs[q].hostPid = HostOf[q]
         /\ HostOf[q] \in hosts[UidOf[q]] \/ phase[HostOf[q]] = "dead"

(* FollowsHost for a host that has not ended, in hostPidsSet_ or not.       *)
RenderState(q) ==
  (/\ recs[q] # None /\ recs[q].type = "RENDER" /\ recs[q].set # UPPER
   /\ phase[HostOf[q]] # "dead" /\ recs[HostOf[q]] # None /\ recs[HostOf[q]].cur # UPPER)
     => recs[q].set = recs[HostOf[q]].cur

GroupInv ==
  /\ SubWinTaskIsTimed /\ GroupIsCurrent
  /\ \A q \in Pids : HostKnown(q) /\ RenderState(q)

(* Nobody ends, and hostPidsSet_ loses nobody.                              *)
HostsKept ==
  /\ \A q \in Pids : phase'[q] = "dead" <=> phase[q] = "dead"
  /\ \A u \in Uids : hosts[u] \subseteq hosts'[u]

(* A handler that changes or makes the record of p and adjusts M.           *)
AdjustingStep(p, rs, M, source) ==
  /\ rs \in Records /\ M \in SUBSET Pids /\ Adjusted(rs, M, source)
  /\ \A q \in M : rs[q] # None
  /\ rs[p] # None /\ \A q \in Pids : q # p => rs[q] = recs[q]
  /\ p \in M \/ rs[p] = recs[p] \/ (recs[p] = None /\ rs[p] = NewRecord)
  /\ rs[p].webSubWin => recs[p] # None /\ recs[p].webSubWin
  /\ rs[p].type \in {"NORMAL", TypeOf[p]}
  /\ rs[p].type = "RENDER" =>
       /\ rs[p].hostPid = HostOf[p]
       /\ HostOf[p] \in hosts'[UidOf[p]] \/ phase[HostOf[p]] = "dead"
  /\ \A q \in Pids : (q \notin M /\ recs[q] # None /\ recs[q].type \in Main) =>
       focused'[UidOf[q]] = focused[UidOf[q]]
  /\ HostsKept /\ UNCHANGED timers

(* The group of a main process depends on its record and the focus only.    *)
LEMMA ComputeSame ==
  ASSUME NEW rs, NEW rt, NEW fp, NEW fq, NEW p, NEW source, source # "create",
         rs[p].type \in Main, SameProcess(rt[p], rs[p]), fp[UidOf[p]] = fq[UidOf[p]]
  PROVE  ComputeProcessGroup(rs, fp, p, source) = ComputeProcessGroup(rt, fq, p, "event")
<1>1. ByActivity(rt[p]) = ByActivity(rs[p]) /\ rt[p].type = rs[p].type
  BY DEF SameProcess, ByActivity, ByState, IsVisible, HasServiceExtension
<1>2. rs[p].type # "RENDER"
  BY DEF Main
<1> QED
  BY <1>1, <1>2 DEF ComputeProcessGroup

(* The host of a render process is a main process of the same application.  *)
LEMMA HostFacts ==
  ASSUME NEW q \in Pids, TypeOf[q] = "RENDER"
  PROVE  /\ HostOf[q] \in Pids /\ HostOf[q] # None /\ TypeOf[HostOf[q]] \in Main
         /\ UidOf[HostOf[q]] = UidOf[q] /\ UidOf[q] \in Uids
  BY CgroupAssumption DEF Main

LEMMA GroupAdjusting ==
  ASSUME Inv, GroupInv, NEW p \in Pids, NEW rs, NEW M, NEW source,
         AdjustingStep(p, rs, M, source)
  PROVE  GroupInv'
<1>0. TypeOK /\ rs \in Records /\ M \in SUBSET Pids
  BY DEF Inv, AdjustingStep
<1>1. AdjustedResult(rs, M, source)
  BY <1>0, AdjustedFacts DEF AdjustingStep
<1>2. ASSUME NEW q \in Pids, recs'[q] # None
      PROVE  rs[q] # None /\ SameProcess(recs'[q], rs[q])
  BY <1>1, <1>2 DEF AdjustedResult
<1>3. ASSUME NEW q \in Pids \ M
      PROVE  rs[q] = recs[q] \/ (recs[q] = None /\ rs[q] = NewRecord)
  BY DEF AdjustingStep
<1>4. ASSUME NEW q \in Pids, rs[q].type \in Main PROVE ~Follows(rs, hosts', q, M)
  BY <1>4 DEF Follows, Main, Attached
<1>5. SubWinTaskIsTimed'
  <2> SUFFICES ASSUME NEW q \in Pids, recs'[q] # None, recs'[q].webSubWin PROVE q \in timers'
    BY DEF SubWinTaskIsTimed
  <2>1. rs[q] # None /\ rs[q].webSubWin
    BY <1>2 DEF SameProcess
  <2> QED
    BY <2>1 DEF AdjustingStep, GroupInv, SubWinTaskIsTimed
<1>6. GroupIsCurrent'
  <2> SUFFICES ASSUME NEW q \in fresh'
               PROVE  /\ recs'[q] # None
                      /\ recs'[q].type \in Main =>
                           recs'[q].set = ComputeProcessGroup(recs', focused', q, "event")
    BY DEF GroupIsCurrent, ComputeProcessGroup, HostGroup
  <2>0. q \in Pids
    BY <1>1 DEF AdjustedResult
  <2>1. CASE q \in M
    <3>1. source # "create" /\ recs'[q] # None /\ rs[q] # None
      BY <1>1, <2>0, <2>1 DEF AdjustedResult, AdjustingStep
    <3>2. ASSUME recs'[q].type \in Main
          PROVE  recs'[q].set = ComputeProcessGroup(recs', focused', q, "event")
      <4>1. SameProcess(recs'[q], rs[q]) /\ rs[q].type \in Main
        BY <1>2, <2>0, <3>1, <3>2 DEF SameProcess
      <4>2. recs'[q].set = ComputeProcessGroup(rs, focused', q, source)
        BY <1>1, <1>4, <2>0, <2>1, <4>1 DEF AdjustedResult
      <4>3. ComputeProcessGroup(rs, focused', q, source)
              = ComputeProcessGroup(recs', focused', q, "event")
        BY <3>1, <4>1, ComputeSame
      <4> QED
        BY <4>2, <4>3
    <3> QED
      BY <3>1, <3>2
  <2>2. CASE q \notin M
    <3>1. q \in fresh /\ recs[q] # None
      BY <1>1, <2>2 DEF AdjustedResult, GroupInv, GroupIsCurrent
    <3>2. rs[q] = recs[q]
      BY <1>3, <2>0, <2>2, <3>1
    <3>3. recs'[q] # None
      BY <1>1, <2>0, <3>1, <3>2 DEF AdjustedResult
    <3>4. ASSUME recs'[q].type \in Main
          PROVE  recs'[q].set = ComputeProcessGroup(recs', focused', q, "event")
      <4>1. SameProcess(recs'[q], recs[q]) /\ recs[q].type \in Main
        BY <1>2, <2>0, <3>2, <3>3, <3>4 DEF SameProcess
      <4>2. recs'[q] = recs[q]
        BY <1>1, <1>4, <2>0, <2>2, <3>2, <4>1 DEF AdjustedResult
      <4>3. focused[UidOf[q]] = focused'[UidOf[q]]
        BY <2>0, <2>2, <3>1, <4>1 DEF AdjustingStep
      <4>4. recs[q].set = ComputeProcessGroup(recs, focused, q, "event")
        BY <3>1, <4>1 DEF GroupInv, GroupIsCurrent
      <4>5. ComputeProcessGroup(recs, focused, q, "event")
              = ComputeProcessGroup(recs', focused', q, "event")
        BY <4>1, <4>3, ComputeSame
      <4> QED
        BY <4>2, <4>4, <4>5
    <3> QED
      BY <3>3, <3>4
  <2> QED
    BY <2>1, <2>2
<1>7. ASSUME NEW q \in Pids, rs[q] # None
      PROVE  /\ rs[q].type \in {"NORMAL", TypeOf[q]}
             /\ rs[q].type = "RENDER" =>
                  /\ rs[q].hostPid = HostOf[q]
                  /\ HostOf[q] \in hosts'[UidOf[q]] \/ phase'[HostOf[q]] = "dead"
  <2>1. TypeOf[q] = "RENDER" => HostOf[q] \in Pids /\ UidOf[q] \in Uids
    BY HostFacts
  <2>2. CASE q = p
    BY <2>1, <2>2 DEF AdjustingStep, HostsKept
  <2>3. CASE q # p
    <3>1. rs[q] = recs[q]
      BY <2>3 DEF AdjustingStep
    <3>2. HostKnown(q)
      BY DEF GroupInv
    <3> QED
      BY <1>7, <2>1, <3>1, <3>2 DEF AdjustingStep, HostsKept, HostKnown
  <2> QED
    BY <2>2, <2>3
<1>8. ASSUME NEW q \in Pids PROVE HostKnown(q)'
  BY <1>2, <1>7 DEF HostKnown, SameProcess
<1>9. ASSUME NEW q \in Pids PROVE RenderState(q)'
  <2> SUFFICES ASSUME recs'[q] # None, recs'[q].type = "RENDER", recs'[q].set # UPPER,
                      phase'[HostOf[q]] # "dead", recs'[HostOf[q]] # None,
                      recs'[HostOf[q]].cur # UPPER
               PROVE  recs'[q].set = recs'[HostOf[q]].cur
    BY DEF RenderState
  <2>1. rs[q] # None /\ rs[q].type = "RENDER"
    BY <1>2 DEF SameProcess
  <2>2. rs[q].hostPid = HostOf[q] /\ TypeOf[q] = "RENDER" /\ HostOf[q] \in hosts'[UidOf[q]]
    BY <1>7, <2>1
  <2>3. PICK h \in Pids : h = HostOf[q]
    BY <2>2, HostFacts
  <2>4. h # None /\ TypeOf[h] \in Main /\ UidOf[h] = UidOf[q]
    BY <2>2, <2>3, HostFacts
  <2>5. rs[h] # None /\ ~Follows(rs, hosts', h, M)
    BY <1>2, <1>4, <1>7, <2>3, <2>4 DEF Main
  <2>6. CASE h \in M
    <3>1. Follows(rs, hosts', q, M)
      BY <2>1, <2>2, <2>3, <2>4, <2>6 DEF Follows, Attached
    <3> QED
      BY <1>1, <2>2, <2>3, <2>5, <3>1 DEF AdjustedResult
  <2>7. CASE h \notin M
    <3>1. recs'[h] = rs[h] /\ ~Follows(rs, hosts', q, M)
      BY <1>1, <2>2, <2>3, <2>5, <2>7 DEF AdjustedResult, Follows
    <3>2. CASE q \in M
      <4>1. recs'[q].set = ComputeProcessGroup(rs, focused', q, source)
        BY <1>1, <3>1, <3>2 DEF AdjustedResult
      <4>2. ComputeProcessGroup(rs, focused', q, source) = rs[h].cur
        BY <2>1, <2>2, <2>3, <2>4, <2>5 DEF ComputeProcessGroup, HostGroup
      <4> QED
        BY <2>3, <3>1, <4>1, <4>2
    <3>3. CASE q \notin M
      <4>1. recs'[q] = rs[q] /\ rs[q] = recs[q]
        BY <1>1, <1>3, <2>1, <3>1, <3>3 DEF AdjustedResult, NewRecord
      <4>2. rs[h] = recs[h]
        BY <1>3, <2>3, <2>7, <3>1 DEF NewRecord
      <4>3. RenderState(q) /\ phase[HostOf[q]] # "dead"
        BY <2>3 DEF GroupInv, AdjustingStep, HostsKept
      <4> QED
        BY <2>1, <2>3, <2>5, <3>1, <4>1, <4>2, <4>3 DEF RenderState
    <3> QED
      BY <3>2, <3>3
  <2> QED
    BY <2>6, <2>7
<1> QED
  BY <1>5, <1>6, <1>8, <1>9 DEF GroupInv

(* A handler that adjusts nothing: it may make the record of p, or change   *)
(* it in what no group depends on unless it gives up the claim of p to be   *)
(* fresh.                                                                   *)
Before(p) == IF recs[p] = None THEN NewRecord ELSE recs[p]

TouchingStep(p) ==
  /\ \A q \in Pids : q # p => recs'[q] = recs[q] /\ (q \in timers => q \in timers')
  /\ \/ recs'[p] = None /\ recs[p] = None
     \/ /\ recs'[p] # None
        /\ recs'[p].type = Before(p).type /\ recs'[p].hostPid = Before(p).hostPid
        /\ recs'[p].set = Before(p).set /\ recs'[p].cur = Before(p).cur
        /\ recs'[p].abilities = Before(p).abilities /\ recs'[p].visible = Before(p).visible
        /\ p \in fresh' => recs'[p].state = Before(p).state
        /\ recs'[p].webSubWin => p \in timers'
  /\ fresh' \subseteq fresh /\ UNCHANGED focused /\ HostsKept

LEMMA GroupTouching ==
  ASSUME Inv, GroupInv, NEW p \in Pids, TouchingStep(p)
  PROVE  GroupInv'
<1>0. TypeOK
  BY DEF Inv
<1>1. ASSUME NEW q \in Pids, recs'[q] # None, recs[q] # None
      PROVE  /\ recs'[q].type = recs[q].type /\ recs'[q].hostPid = recs[q].hostPid
             /\ recs'[q].set = recs[q].set /\ recs'[q].cur = recs[q].cur
             /\ recs'[q].abilities = recs[q].abilities /\ recs'[q].visible = recs[q].visible
             /\ q \in fresh' => recs'[q].state = recs[q].state
  BY <1>1 DEF TouchingStep, Before
<1>2. ASSUME NEW q \in Pids, recs'[q] # None, recs[q] = None
      PROVE  recs'[q].type = "NORMAL" /\ recs'[q].cur = UPPER
  BY <1>2 DEF TouchingStep, Before, NewRecord
<1>3. SubWinTaskIsTimed'
  BY DEF TouchingStep, GroupInv, SubWinTaskIsTimed
<1>4. ASSUME NEW q \in fresh'
      PROVE  /\ recs'[q] # None
             /\ recs'[q].type \in Main =>
                  recs'[q].set = ComputeProcessGroup(recs', focused', q, "event")
  <2>1. q \in Pids /\ q \in fresh /\ recs[q] # None /\ recs'[q] # None
    BY <1>0 DEF TouchingStep, TypeOK, GroupInv, GroupIsCurrent
  <2>2. ASSUME recs'[q].type \in Main
        PROVE  recs'[q].set = ComputeProcessGroup(recs', focused', q, "event")
    <3>1. recs[q].type \in Main /\ recs'[q].set = recs[q].set
      BY <1>1, <2>1, <2>2
    <3>2. ByActivity(recs'[q]) = ByActivity(recs[q]) /\ recs'[q].type = recs[q].type
      BY <1>1, <2>1 DEF ByActivity, ByState, IsVisible, HasServiceExtension
    <3>3. recs[q].set = ComputeProcessGroup(recs, focused, q, "event")
      BY <2>1, <3>1 DEF GroupInv, GroupIsCurrent
    <3>4. UNCHANGED focused
      BY DEF TouchingStep
    <3> QED
      BY <3>1, <3>2, <3>3, <3>4 DEF ComputeProcessGroup, Main
  <2> QED
    BY <2>1, <2>2
<1>5. GroupIsCurrent'
  BY <1>4 DEF GroupIsCurrent, ComputeProcessGroup, HostGroup
<1>6. ASSUME NEW q \in Pids PROVE HostKnown(q)'
  <2>1. TypeOf[q] = "RENDER" => HostOf[q] \in Pids /\ UidOf[q] \in Uids
    BY HostFacts
  <2>2. HostKnown(q)
    BY DEF GroupInv
  <2> QED
    BY <1>1, <1>2, <2>1, <2>2 DEF TouchingStep, HostsKept, HostKnown
<1>7. ASSUME NEW q \in Pids PROVE RenderState(q)'
  <2> SUFFICES ASSUME recs'[q] # None, recs'[q].type = "RENDER", recs'[q].set # UPPER,
                      phase'[HostOf[q]] # "dead", recs'[HostOf[q]] # None,
                      recs'[HostOf[q]].cur # UPPER
               PROVE  recs'[q].set = recs'[HostOf[q]].cur
    BY DEF RenderState
  <2>1. recs[q] # None /\ recs[q].type = "RENDER" /\ recs[q].set = recs'[q].set
    BY <1>1, <1>2
  <2>2. TypeOf[q] = "RENDER"
    BY <2>1 DEF GroupInv, HostKnown
  <2>3. PICK h \in Pids : h = HostOf[q]
    BY <2>2, HostFacts
  <2>4. recs[h] # None /\ recs[h].cur = recs'[h].cur /\ phase[h] # "dead"
    BY <1>1, <1>2, <2>3 DEF TouchingStep, HostsKept
  <2> QED
    BY <2>1, <2>3, <2>4 DEF GroupInv, RenderState
<1> QED
  BY <1>3, <1>5, <1>6, <1>7 DEF GroupInv

(* Records that leave take their claims along.                              *)
LEMMA GroupRemoving ==
  ASSUME Inv, GroupInv,
         \A q \in Pids : recs'[q] = None \/ recs'[q] = recs[q],
         fresh' \subseteq {q \in fresh : recs'[q] # None},
         \A q \in Pids : recs'[q] # None => (focused'[UidOf[q]] = q <=> focused[UidOf[q]] = q),
         \A q \in Pids : phase[q] = "dead" => phase'[q] = "dead",
         \A q, h \in Pids : (recs'[q] # None /\ h \in hosts[UidOf[q]]) =>
                               h \in hosts'[UidOf[q]] \/ phase'[h] = "dead",
         \A q \in Pids : recs'[q] # None /\ q \in timers => q \in timers'
  PROVE  GroupInv'
<1>0. TypeOK
  BY DEF Inv
<1>1. SubWinTaskIsTimed'
  BY DEF GroupInv, SubWinTaskIsTimed
<1>2. GroupIsCurrent'
  <2> SUFFICES ASSUME NEW q \in fresh'
               PROVE  /\ recs'[q] # None
                      /\ recs'[q].type \in Main =>
                           recs'[q].set = ComputeProcessGroup(recs', focused', q, "event")
    BY DEF GroupIsCurrent, ComputeProcessGroup, HostGroup
  <2>1. q \in Pids /\ q \in fresh /\ recs'[q] # None /\ recs'[q] = recs[q]
    BY <1>0 DEF TypeOK
  <2>2. focused'[UidOf[q]] = q <=> focused[UidOf[q]] = q
    BY <2>1
  <2>3. recs[q].type \in Main => recs[q].set = ComputeProcessGroup(recs, focused, q, "event")
    BY <2>1 DEF GroupInv, GroupIsCurrent
  <2> QED
    BY <2>1, <2>2, <2>3 DEF ComputeProcessGroup, Main
<1>3. ASSUME NEW q \in Pids PROVE HostKnown(q)'
  <2>1. TypeOf[q] = "RENDER" => HostOf[q] \in Pids /\ UidOf[q] \in Uids
    BY HostFacts
  <2>2. HostKnown(q)
    BY DEF GroupInv
  <2> QED
    BY <2>1, <2>2 DEF HostKnown
<1>4. ASSUME NEW q \in Pids PROVE RenderState(q)'
  <2> SUFFICES ASSUME recs'[q] # None, recs'[q].type = "RENDER", recs'[q].set # UPPER,
                      phase'[HostOf[q]] # "dead", recs'[HostOf[q]] # None,
                      recs'[HostOf[q]].cur # UPPER
               PROVE  recs'[q].set = recs'[HostOf[q]].cur
    BY DEF RenderState
  <2>1. recs'[q] = recs[q] /\ TypeOf[q] = "RENDER"
    BY DEF GroupInv, HostKnown
  <2>2. PICK h \in Pids : h = HostOf[q]
    BY <2>1, HostFacts
  <2>3. recs'[h] = recs[h] /\ phase[h] # "dead"
    BY <2>2
  <2> QED
    BY <2>1, <2>2, <2>3 DEF GroupInv, RenderState
<1> QED
  BY <1>1, <1>2, <1>3, <1>4 DEF GroupInv

(* The handlers of events about one process, as adjusting and touching steps. *)
LEMMA GroupOwn ==
  ASSUME Inv, GroupInv, NEW p \in Pids, NEW pr \in ProcessRecord, NEW source,
         Adjusted([GetProcessRecordNonNull(recs, p) EXCEPT ![p] = pr], {p}, source),
         pr.webSubWin => recs[p] # None /\ recs[p].webSubWin,
         \/ pr.type = Before(p).type /\ pr.hostPid = Before(p).hostPid
         \/ /\ pr.type = TypeOf[p]
            /\ pr.type = "RENDER" => pr.hostPid = HostOf[p] /\ HostOf[p] \in hosts'[UidOf[p]],
         HostsKept, UNCHANGED <<focused, timers>>
  PROVE  GroupInv'
<1> DEFINE nn == GetProcessRecordNonNull(recs, p)
           rs == [nn EXCEPT ![p] = pr]
<1>0. TypeOK /\ None \notin ProcessRecord
  BY CgroupAssumption DEF Inv
<1>1. nn \in Records /\ \A q \in Pids : q # p => nn[q] = recs[q]
  BY <1>0, NonNull
<1> HIDE DEF nn
<1>2. rs \in Records /\ rs[p] = pr /\ pr # None /\ \A q \in Pids : q # p => rs[q] = recs[q]
  BY <1>0, <1>1 DEF Records
<1>3. /\ pr.type \in {"NORMAL", TypeOf[p]}
      /\ pr.type = "RENDER" =>
           /\ pr.hostPid = HostOf[p]
           /\ HostOf[p] \in hosts'[UidOf[p]] \/ phase[HostOf[p]] = "dead"
  <2>1. TypeOf[p] = "RENDER" => HostOf[p] \in Pids /\ UidOf[p] \in Uids
    BY HostFacts
  <2>2. HostKnown(p)
    BY DEF GroupInv
  <2> QED
    BY <2>1, <2>2 DEF HostKnown, HostsKept, Before, NewRecord
<1>4. Adjusted(rs, {p}, source)
  BY DEF nn
<1> HIDE DEF rs
<1>5. AdjustingStep(p, rs, {p}, source)
  BY <1>2, <1>3, <1>4 DEF AdjustingStep
<1> QED
  BY <1>5, GroupAdjusting

LEMMA GroupMaking ==
  ASSUME Inv, GroupInv, NEW p \in Pids,
         \/ \E s \in {"other", "foreground", "background"}, pl \in BOOLEAN :
              HandleProcessStateChanged(p, s, pl)
         \/ \E a \in Abilities : HandleAbilityStateChanged(p, a)
         \/ HandleContinuousTaskUpdate(p) \/ HandleWebviewScreenCapture(p)
         \/ \E w \in Windows : HandleWindowVisible(p, w)
         \/ \E preload \in BOOLEAN : HandleProcessCreated(p, preload)
  PROVE  GroupInv'
<1> DEFINE nn == GetProcessRecordNonNull(recs, p)
<1>0. TypeOK /\ None \notin ProcessRecord
  BY CgroupAssumption DEF Inv
<1>1. /\ nn \in Records /\ nn[p] \in ProcessRecord /\ nn[p] = Before(p)
      /\ \A q \in Pids : q # p => nn[q] = recs[q]
  BY <1>0, NonNull DEF GetProcessRecordNonNull, Before, TypeOK
<1> HIDE DEF nn
<1>2. nn[p].webSubWin => recs[p] # None /\ recs[p].webSubWin
  BY <1>1 DEF Before, NewRecord
<1>3. UNCHANGED <<phase, hosts>> => HostsKept
  BY DEF HostsKept
<1> USE DEF Event, GetAppRecordNonNull, app
<1>4. ASSUME NEW st \in {"other", "foreground", "background"}, NEW pl \in BOOLEAN,
             HandleProcessStateChanged(p, st, pl)
      PROVE  GroupInv'
  <2> DEFINE pr == [nn[p] EXCEPT !.state = st]
  <2>1. /\ pr \in ProcessRecord /\ pr.type = nn[p].type /\ pr.hostPid = nn[p].hostPid
        /\ pr.webSubWin = nn[p].webSubWin /\ pr.set = nn[p].set /\ pr.cur = nn[p].cur
        /\ pr.abilities = nn[p].abilities /\ pr.visible = nn[p].visible
    BY <1>1 DEF ProcessRecord
  <2>2. UNCHANGED <<phase, hosts, focused, timers>>
    BY <1>4 DEF HandleProcessStateChanged
  <2> HIDE DEF pr
  <2>3. CASE st = "background" /\ pl
    <3>1. recs' = [nn EXCEPT ![p] = pr] /\ fresh' = fresh \ {p}
      BY <1>4, <2>3 DEF HandleProcessStateChanged, nn, pr
    <3>2. recs'[p] = pr /\ pr # None /\ \A q \in Pids : q # p => recs'[q] = recs[q]
      BY <1>0, <1>1, <2>1, <3>1 DEF Records
    <3>3. pr.webSubWin => p \in timers
      BY <1>2, <2>1 DEF GroupInv, SubWinTaskIsTimed
    <3>4. TouchingStep(p)
      BY <1>1, <1>3, <2>1, <2>2, <3>1, <3>2, <3>3 DEF TouchingStep
    <3> QED
      BY <3>4, GroupTouching
  <2>4. CASE ~(st = "background" /\ pl)
    <3>1. Adjusted([nn EXCEPT ![p] = pr], {p}, "state")
      BY <1>4, <2>4 DEF HandleProcessStateChanged, nn, pr
    <3> QED
      BY <1>1, <1>2, <1>3, <2>1, <2>2, <3>1, GroupOwn DEF nn
  <2> QED
    BY <2>3, <2>4
<1>5. ASSUME NEW a \in Abilities, HandleAbilityStateChanged(p, a) PROVE GroupInv'
  <2> DEFINE pr == [nn[p] EXCEPT !.abilities = @ \cup {a}]
  <2>1. /\ pr \in ProcessRecord /\ pr.type = nn[p].type /\ pr.hostPid = nn[p].hostPid
        /\ pr.webSubWin = nn[p].webSubWin
    BY <1>1 DEF ProcessRecord
  <2> HIDE DEF pr
  <2>2. Adjusted([nn EXCEPT ![p] = pr], {p}, "ability")
    BY <1>5 DEF HandleAbilityStateChanged, nn, pr
  <2>3. UNCHANGED <<phase, hosts, focused, timers>>
    BY <1>5 DEF HandleAbilityStateChanged
  <2> QED
    BY <1>1, <1>2, <1>3, <2>1, <2>2, <2>3, GroupOwn DEF nn
<1>6. CASE HandleContinuousTaskUpdate(p) \/ HandleWebviewScreenCapture(p)
  <2>1. nn = [nn EXCEPT ![p] = nn[p]]
    BY <1>1 DEF Records
  <2>2. Adjusted([nn EXCEPT ![p] = nn[p]], {p}, "report")
    BY <1>6, <2>1 DEF HandleContinuousTaskUpdate, HandleWebviewScreenCapture, nn
  <2>3. UNCHANGED <<phase, hosts, focused, timers>>
    BY <1>6 DEF HandleContinuousTaskUpdate, HandleWebviewScreenCapture
  <2> QED
    BY <1>1, <1>2, <1>3, <2>2, <2>3, GroupOwn DEF nn
<1>7. ASSUME NEW w \in Windows, HandleWindowVisible(p, w) PROVE GroupInv'
  <2> DEFINE pr == [nn[p] EXCEPT !.visible = @ \cup {w}]
  <2>1. /\ pr \in ProcessRecord /\ pr.type = nn[p].type /\ pr.hostPid = nn[p].hostPid
        /\ pr.webSubWin = nn[p].webSubWin
    BY <1>1 DEF ProcessRecord
  <2> HIDE DEF pr
  <2>2. UNCHANGED <<phase, hosts, focused, timers>>
    BY <1>7 DEF HandleWindowVisible
  <2>3. CASE w \notin nn[p].visible
    <3>1. Adjusted([nn EXCEPT ![p] = pr], {p}, "visibility")
      BY <1>7, <2>3 DEF HandleWindowVisible, nn, pr
    <3> QED
      BY <1>1, <1>2, <1>3, <2>1, <2>2, <3>1, GroupOwn DEF nn
  <2>4. CASE w \in nn[p].visible
    <3>1. UNCHANGED <<recs, fresh>>
      BY <1>7, <2>4 DEF HandleWindowVisible, nn
    <3>2. TouchingStep(p)
      BY <1>3, <2>2, <3>1 DEF TouchingStep, Before, GroupInv, SubWinTaskIsTimed
    <3> QED
      BY <3>2, GroupTouching
  <2> QED
    BY <2>3, <2>4
<1>8. ASSUME NEW preload \in BOOLEAN, HandleProcessCreated(p, preload) PROVE GroupInv'
  <2> DEFINE pr == [nn[p] EXCEPT !.type = TypeOf[p],
                                 !.hostPid = IF TypeOf[p] \in Attached THEN HostOf[p] ELSE @]
  <2>0. /\ TypeOf[p] \in Main \cup Attached /\ UidOf[p] \in Uids
        /\ TypeOf[p] \in Attached => HostOf[p] \in Pids
    BY CgroupAssumption DEF Main, Attached
  <2>1. /\ pr \in ProcessRecord /\ pr.type = TypeOf[p] /\ pr.webSubWin = nn[p].webSubWin
        /\ TypeOf[p] \in Attached => pr.hostPid = HostOf[p]
    BY <1>1, <2>0 DEF ProcessRecord
  <2> HIDE DEF pr
  <2>2. Adjusted([nn EXCEPT ![p] = pr], {p}, IF preload THEN "preload" ELSE "create")
    BY <1>8 DEF HandleProcessCreated, nn, pr
  <2>3. /\ UNCHANGED <<focused, timers>> /\ phase[p] = "started"
        /\ phase' = [phase EXCEPT ![p] = "known"]
        /\ hosts' = IF TypeOf[p] \in Attached
                    THEN [hosts EXCEPT ![UidOf[p]] = @ \cup {HostOf[p]}] ELSE hosts
    BY <1>8 DEF HandleProcessCreated
  <2>4. HostsKept /\ (TypeOf[p] = "RENDER" => HostOf[p] \in hosts'[UidOf[p]])
    BY <1>0, <2>0, <2>3 DEF HostsKept, TypeOK, Attached
  <2>5. pr.type = "RENDER" => pr.hostPid = HostOf[p]
    BY <2>1 DEF Attached
  <2> QED
    BY <1>2, <2>1, <2>2, <2>3, <2>4, <2>5, GroupOwn DEF nn
<1> QED
  BY <1>4, <1>5, <1>6, <1>7, <1>8

LEMMA GroupKnown ==
  ASSUME Inv, GroupInv, NEW p \in Pids,
         \/ \E a \in Abilities : HandleAbilityTerminated(p, a)
         \/ \E w \in Windows : HandleWindowHidden(p, w)
         \/ HandleReport(p)
         \/ \E hide \in BOOLEAN : HandleReportCosmicCubeState(p, hide)
         \/ \E accepted \in BOOLEAN : HandleRenderReport(p, accepted)
  PROVE  GroupInv'
<1>0. TypeOK /\ None \notin ProcessRecord /\ recs \in Records
  BY CgroupAssumption DEF Inv, TypeOK, Records
<1>1. UNCHANGED <<phase, hosts>> => HostsKept
  BY DEF HostsKept
<1>2. recs[p] # None => /\ recs[p] \in ProcessRecord /\ Before(p) = recs[p]
                        /\ GetProcessRecordNonNull(recs, p) = recs
                        /\ recs = [recs EXCEPT ![p] = recs[p]]
  BY <1>0 DEF Records, Before, GetProcessRecordNonNull
<1> USE DEF Event, app
<1>3. ASSUME NEW pr \in ProcessRecord, NEW source, recs[p] # None,
             Adjusted([recs EXCEPT ![p] = pr], {p}, source),
             pr.type = recs[p].type, pr.hostPid = recs[p].hostPid,
             pr.webSubWin = recs[p].webSubWin,
             UNCHANGED <<phase, hosts, focused, timers>>
      PROVE  GroupInv'
  BY <1>1, <1>2, <1>3, GroupOwn
<1>4. ASSUME NEW a \in Abilities, HandleAbilityTerminated(p, a) PROVE GroupInv'
  <2> DEFINE pr == [recs[p] EXCEPT !.abilities = @ \ {a}]
  <2>1. recs[p] # None /\ UNCHANGED <<phase, hosts, focused, timers>>
    BY <1>4 DEF HandleAbilityTerminated
  <2>2. /\ pr \in ProcessRecord /\ pr.type = recs[p].type /\ pr.hostPid = recs[p].hostPid
        /\ pr.webSubWin = recs[p].webSubWin
    BY <1>2, <2>1 DEF ProcessRecord
  <2>3. Adjusted([recs EXCEPT ![p] = pr], {p}, "ability")
    BY <1>4 DEF HandleAbilityTerminated
  <2> QED
    BY <1>3, <2>1, <2>2, <2>3
<1>5. ASSUME NEW w \in Windows, HandleWindowHidden(p, w) PROVE GroupInv'
  <2> DEFINE pr == [recs[p] EXCEPT !.visible = @ \ {w}]
  <2>1. recs[p] # None /\ UNCHANGED <<phase, hosts, focused, timers>>
    BY <1>5 DEF HandleWindowHidden
  <2>2. /\ pr \in ProcessRecord /\ pr.type = recs[p].type /\ pr.hostPid = recs[p].hostPid
        /\ pr.webSubWin = recs[p].webSubWin
    BY <1>2, <2>1 DEF ProcessRecord
  <2>3. Adjusted([recs EXCEPT ![p] = pr], {p}, "visibility")
    BY <1>5 DEF HandleWindowHidden
  <2> QED
    BY <1>3, <2>1, <2>2, <2>3
<1>6. CASE HandleReport(p)
  <2>1. recs[p] # None /\ UNCHANGED <<phase, hosts, focused, timers>>
    BY <1>6 DEF HandleReport
  <2>2. Adjusted([recs EXCEPT ![p] = recs[p]], {p}, "report")
    BY <1>2, <1>6, <2>1 DEF HandleReport
  <2> QED
    BY <1>2, <1>3, <2>1, <2>2
<1>7. ASSUME NEW hide \in BOOLEAN, HandleReportCosmicCubeState(p, hide) PROVE GroupInv'
  <2>1. recs[p] # None /\ UNCHANGED <<phase, hosts, focused, timers>>
    BY <1>7 DEF HandleReportCosmicCubeState
  <2>2. CASE recs[p].type = "NORMAL"
    <3>1. Adjusted([recs EXCEPT ![p] = recs[p]], {p}, "state")
      BY <1>2, <1>7, <2>1, <2>2 DEF HandleReportCosmicCubeState
    <3> QED
      BY <1>2, <1>3, <2>1, <3>1
  <2>3. CASE recs[p].type # "NORMAL"
    <3>1. UNCHANGED <<recs, fresh>>
      BY <1>7, <2>3 DEF HandleReportCosmicCubeState
    <3>2. TouchingStep(p)
      BY <1>1, <2>1, <3>1 DEF TouchingStep, Before, GroupInv, SubWinTaskIsTimed
    <3> QED
      BY <3>2, GroupTouching
  <2> QED
    BY <2>2, <2>3
<1>8. ASSUME NEW accepted \in BOOLEAN, HandleRenderReport(p, accepted) PROVE GroupInv'
  <2> DEFINE nn == GetProcessRecordNonNull(recs, p)
             h == nn[p].hostPid
  <2>1. /\ nn \in Records /\ nn[p] \in ProcessRecord /\ nn[p] # None
        /\ nn[p] = recs[p] \/ (recs[p] = None /\ nn[p] = NewRecord)
        /\ \A q \in Pids : q # p => nn[q] = recs[q]
    BY <1>0, NonNull DEF GetProcessRecordNonNull
  <2>2. UNCHANGED <<phase, hosts, focused, timers>>
    BY <1>8 DEF HandleRenderReport
  <2> HIDE DEF nn
  <2>3. CASE accepted /\ h # None /\ nn[h] # None
    <3>1. Adjusted(nn, {h}, "report")
      BY <1>8, <2>3 DEF HandleRenderReport, nn
    <3>2. h \in Pids
      BY <2>1, <2>3 DEF ProcessRecord
    <3>3. HostKnown(p)
      BY DEF GroupInv
    <3>4. AdjustingStep(p, nn, {h}, "report")
      BY <1>1, <2>1, <2>2, <2>3, <3>1, <3>2, <3>3
      DEF AdjustingStep, HostKnown, NewRecord
    <3> QED
      BY <3>4, GroupAdjusting
  <2>4. CASE ~(accepted /\ h # None /\ nn[h] # None)
    <3>1. recs' = nn /\ UNCHANGED fresh
      BY <1>8, <2>4 DEF HandleRenderReport, nn
    <3>2. nn[p] = Before(p) /\ (nn[p].webSubWin => p \in timers)
      BY <2>1 DEF Before, NewRecord, GroupInv, SubWinTaskIsTimed
    <3>3. TouchingStep(p)
      BY <1>1, <2>1, <2>2, <3>1, <3>2 DEF TouchingStep
    <3> QED
      BY <3>3, GroupTouching
  <2> QED
    BY <2>3, <2>4
<1> QED
  BY <1>4, <1>5, <1>6, <1>7, <1>8

(* The focus: every main process of the application is adjusted.            *)
LEMMA GroupFocus ==
  ASSUME Inv, GroupInv, NEW p \in Pids, HandleFocusedWindow(p) \/ HandleUnfocusedWindow(p)
  PROVE  GroupInv'
<1> DEFINE u == UidOf[p]
<1>0. TypeOK /\ recs \in Records /\ u \in Uids /\ UidOf \in [Pids -> Uids]
  BY CgroupAssumption DEF Inv, TypeOK, Records
<1>1. UNCHANGED <<phase, hosts>> => HostsKept
  BY DEF HostsKept
<1>2. HostKnown(p)
  BY DEF GroupInv
<1>3. ASSUME NEW rs \in Records, NEW source, AdjustAllProcessGroup(rs, u, source),
             rs[p] # None, \A q \in Pids : q # p => rs[q] = recs[q],
             rs[p] = recs[p] \/ (recs[p] = None /\ rs[p] = NewRecord),
             UNCHANGED <<phase, hosts, timers>>,
             \A v \in Uids : v # u => focused'[v] = focused[v]
      PROVE  GroupInv'
  <2> DEFINE M == Mains(rs, u)
  <2>1. M \in SUBSET Pids /\ \A q \in M : rs[q] # None
    BY DEF Mains
  <2>2. Adjusted(rs, M, source)
    BY <1>3 DEF AdjustAllProcessGroup
  <2>3. ASSUME NEW q \in Pids, q \notin M, recs[q] # None, recs[q].type \in Main
        PROVE  focused'[UidOf[q]] = focused[UidOf[q]]
    <3>1. rs[q] = recs[q]
      BY <1>3, <2>3
    <3>2. UidOf[q] # u /\ UidOf[q] \in Uids
      BY <1>0, <2>3, <3>1 DEF Mains
    <3> QED
      BY <1>3, <3>2
  <2>4. /\ rs[p].webSubWin => recs[p] # None /\ recs[p].webSubWin
        /\ rs[p].type \in {"NORMAL", TypeOf[p]}
        /\ rs[p].type = "RENDER" =>
             /\ rs[p].hostPid = HostOf[p]
             /\ HostOf[p] \in hosts'[u] \/ phase[HostOf[p]] = "dead"
    BY <1>2, <1>3 DEF HostKnown, NewRecord
  <2> HIDE DEF M
  <2>5. AdjustingStep(p, rs, M, source)
    BY <1>1, <1>3, <2>1, <2>2, <2>3, <2>4 DEF AdjustingStep
  <2> QED
    BY <2>5, GroupAdjusting
<1>4. CASE HandleFocusedWindow(p)
  <2> DEFINE nn == GetProcessRecordNonNull(recs, p)
  <2>1. /\ nn \in Records /\ nn[p] # None /\ \A q \in Pids : q # p => nn[q] = recs[q]
        /\ nn[p] = recs[p] \/ (recs[p] = None /\ nn[p] = NewRecord)
    BY <1>0, NonNull DEF GetProcessRecordNonNull
  <2>2. /\ AdjustAllProcessGroup(nn, u, "focus") /\ UNCHANGED <<phase, hosts, timers>>
        /\ focused' = [focused EXCEPT ![u] = p]
    BY <1>4 DEF HandleFocusedWindow, Event
  <2>3. \A v \in Uids : v # u => focused'[v] = focused[v]
    BY <1>0, <2>2 DEF TypeOK
  <2> HIDE DEF nn
  <2> QED
    BY <1>3, <2>1, <2>2, <2>3
<1>5. CASE HandleUnfocusedWindow(p)
  <2>1. /\ AdjustAllProcessGroup(recs, u, "unfocus") /\ recs[p] # None
        /\ UNCHANGED <<phase, hosts, timers>>
        /\ focused' = IF focused[u] = p THEN [focused EXCEPT ![u] = None] ELSE focused
    BY <1>5 DEF HandleUnfocusedWindow, Event
  <2>2. \A v \in Uids : v # u => focused'[v] = focused[v]
    BY <1>0, <2>1 DEF TypeOK
  <2> QED
    BY <1>0, <1>3, <2>1, <2>2
<1> QED
  BY <1>4, <1>5

(* The events that adjust no group, and the recovery of hidden applications. *)
LEMMA GroupOther ==
  ASSUME Inv, GroupInv,
         \/ \E p \in Pids : \/ Start(p) \/ HandleApplicationEvent(p) \/ CheckWebSubWinTaskStatus(p)
                            \/ \E start \in BOOLEAN : HandleReportWebSubWinTaskStatus(p, start)
         \/ HandleEmptyPayloadForCosmicCubeState
  PROVE  GroupInv'
<1> USE DEF app, Event
<1>0. TypeOK /\ recs \in Records /\ None \notin ProcessRecord
  BY CgroupAssumption DEF Inv, TypeOK, Records
<1>1. UNCHANGED <<phase, hosts>> => HostsKept
  BY DEF HostsKept
<1>2. ASSUME NEW p \in Pids, UNCHANGED <<recs, timers, focused, fresh>>, HostsKept
      PROVE  GroupInv'
  <2>1. TouchingStep(p)
    BY <1>2 DEF TouchingStep, Before, GroupInv, SubWinTaskIsTimed
  <2> QED
    BY <2>1, GroupTouching
<1>3. ASSUME NEW p \in Pids, Start(p) PROVE GroupInv'
  <2>1. HostsKept
    BY <1>0, <1>3 DEF Start, HostsKept, TypeOK
  <2> QED
    BY <1>2, <1>3, <2>1 DEF Start
<1>4. ASSUME NEW p \in Pids, HandleApplicationEvent(p) PROVE GroupInv'
  BY <1>1, <1>2, <1>4 DEF HandleApplicationEvent
<1>5. ASSUME NEW p \in Pids, NEW b \in BOOLEAN, recs[p] # None,
             recs' = [recs EXCEPT ![p].webSubWin = b],
             \A q \in timers : q # p => q \in timers', b => p \in timers',
             UNCHANGED <<phase, hosts, focused, fresh>>
      PROVE  GroupInv'
  <2>1. recs[p] \in ProcessRecord /\ Before(p) = recs[p]
    BY <1>0, <1>5 DEF Records, Before
  <2>2. /\ \A q \in Pids : q # p => recs'[q] = recs[q]
        /\ recs'[p] \in ProcessRecord /\ recs'[p].webSubWin = b
        /\ recs'[p].type = recs[p].type /\ recs'[p].hostPid = recs[p].hostPid
        /\ recs'[p].set = recs[p].set /\ recs'[p].cur = recs[p].cur
        /\ recs'[p].abilities = recs[p].abilities /\ recs'[p].visible = recs[p].visible
        /\ recs'[p].state = recs[p].state
    BY <1>0, <1>5, <2>1 DEF Records, ProcessRecord
  <2>3. TouchingStep(p)
    BY <1>0, <1>1, <1>5, <2>1, <2>2 DEF TouchingStep
  <2> QED
    BY <2>3, GroupTouching
<1>6. ASSUME NEW p \in Pids, NEW start \in BOOLEAN, HandleReportWebSubWinTaskStatus(p, start)
      PROVE  GroupInv'
  <2>1. /\ recs[p] # None /\ recs' = [recs EXCEPT ![p].webSubWin = start]
        /\ UNCHANGED <<phase, hosts, focused, fresh>>
        /\ timers' = IF start THEN timers \cup {p} ELSE timers \ {p}
    BY <1>6 DEF HandleReportWebSubWinTaskStatus
  <2> QED
    BY <1>5, <2>1
<1>7. ASSUME NEW p \in Pids, CheckWebSubWinTaskStatus(p) PROVE GroupInv'
  <2>1. UNCHANGED <<phase, hosts, focused, fresh>> /\ timers' = timers \ {p}
    BY <1>7 DEF CheckWebSubWinTaskStatus
  <2>2. CASE recs[p] = None
    <3>1. recs' = recs
      BY <1>7, <2>2 DEF CheckWebSubWinTaskStatus
    <3>2. TouchingStep(p)
      BY <1>1, <2>1, <2>2, <3>1 DEF TouchingStep
    <3> QED
      BY <3>2, GroupTouching
  <2>3. CASE recs[p] # None
    BY <1>5, <1>7, <2>1, <2>3 DEF CheckWebSubWinTaskStatus
  <2> QED
    BY <2>2, <2>3
<1>8. CASE HandleEmptyPayloadForCosmicCubeState
  <2> DEFINE M == {q \in Pids : /\ recs[q] # None /\ recs[q].type = "NORMAL"
                                /\ UidOf[q] \in hidden}
  <2>1. Adjusted(recs, M, "state") /\ UNCHANGED <<phase, focused, hosts, timers>>
    BY <1>8 DEF HandleEmptyPayloadForCosmicCubeState
  <2>2. CASE M = {}
    <3>1. AdjustedResult(recs, M, "state")
      BY <1>0, <2>1, <2>2, AdjustedFacts
    <3>2. recs' = recs /\ fresh' = fresh
      <4>1. \A q \in Pids : recs'[q] = recs[q]
        BY <2>2, <3>1 DEF AdjustedResult, Follows
      <4> QED
        BY <1>0, <2>2, <3>1, <4>1 DEF AdjustedResult, Records
    <3>3. CASE Pids = {}
      BY <1>0, <3>2, <3>3 DEF GroupInv, TypeOK, SubWinTaskIsTimed, GroupIsCurrent
    <3> QED
      BY <1>1, <1>2, <2>1, <3>2, <3>3
  <2>3. CASE M # {}
    <3>1. PICK p \in Pids : p \in M
      BY <2>3
    <3>2. recs[p] # None /\ recs[p].type = "NORMAL"
      BY <3>1
    <3>3. M \in SUBSET Pids /\ \A q \in M : recs[q] # None
      OBVIOUS
    <3> HIDE DEF M
    <3>4. AdjustingStep(p, recs, M, "state")
      BY <1>0, <1>1, <2>1, <3>1, <3>2, <3>3 DEF AdjustingStep
    <3> QED
      BY <3>4, GroupAdjusting
  <2> QED
    BY <2>2, <2>3
<1> QED
  BY <1>3, <1>4, <1>6, <1>7, <1>8

(* The end of processes and applications, reloading and the restart.        *)
LEMMA GroupEnding ==
  ASSUME Inv, GroupInv,
         \/ \E p \in Pids : HandleProcessDied(p)
         \/ \E u \in Uids : HandleOnAppStopped(u)
         \/ Restart
  PROVE  GroupInv'
<1> USE DEF app
<1>0. TypeOK /\ recs \in Records /\ UidOf \in [Pids -> Uids]
  BY CgroupAssumption DEF Inv, TypeOK, Records
<1>1. ASSUME NEW p \in Pids, HandleProcessDied(p) PROVE GroupInv'
  <2>1. phase' = [phase EXCEPT ![p] = "dead"] /\ UNCHANGED timers
    BY <1>1 DEF HandleProcessDied
  <2>2. \A q \in Pids : phase[q] = "dead" => phase'[q] = "dead"
    BY <1>0, <2>1 DEF TypeOK
  <2>3. CASE UidOf[p] \notin apps
    <3>1. UNCHANGED <<focused, hosts, recs, fresh>>
      BY <1>1, <2>3 DEF HandleProcessDied
    <3>2. \A q \in fresh : recs[q] # None
      BY DEF GroupInv, GroupIsCurrent
    <3> QED
      BY <2>1, <2>2, <3>1, <3>2, GroupRemoving
  <2>4. CASE UidOf[p] \in apps
    <3> DEFINE u == UidOf[p]
               rest == [recs EXCEPT ![p] = None]
               gone == \A q \in Pids : UidOf[q] = u => rest[q] = None
    <3>1. /\ recs' = rest
          /\ focused' = IF gone \/ focused[u] = p THEN [focused EXCEPT ![u] = None] ELSE focused
          /\ hosts' = [hosts EXCEPT ![u] = IF gone THEN {} ELSE IF recs[p] = None THEN @ ELSE @ \ {p}]
          /\ fresh' = fresh \ {p}
      BY <1>1, <2>4 DEF HandleProcessDied, RemoveProcessRecord
    <3>2. rest[p] = None /\ \A q \in Pids : q # p => rest[q] = recs[q]
      BY <1>0 DEF Records
    <3> HIDE DEF rest
    <3>3. \A q \in Pids : recs'[q] = None \/ recs'[q] = recs[q]
      BY <3>1, <3>2
    <3>4. fresh' \subseteq {q \in fresh : recs'[q] # None}
      BY <1>0, <3>1, <3>2 DEF GroupInv, GroupIsCurrent, TypeOK
    <3>5. ASSUME NEW q \in Pids, recs'[q] # None
          PROVE  /\ q # p /\ (UidOf[q] = u => ~gone)
                 /\ focused'[UidOf[q]] = q <=> focused[UidOf[q]] = q
      <4>1. q # p /\ (UidOf[q] = u => ~gone) /\ UidOf[q] \in Uids
        BY <1>0, <3>1, <3>2, <3>5
      <4>2. None \notin Pids
        BY CgroupAssumption
      <4> QED
        BY <1>0, <3>1, <4>1, <4>2 DEF TypeOK
    <3>6. ASSUME NEW q \in Pids, NEW h \in Pids, recs'[q] # None, h \in hosts[UidOf[q]]
          PROVE  h \in hosts'[UidOf[q]] \/ phase'[h] = "dead"
      <4>1. UidOf[q] = u => ~gone
        BY <3>5, <3>6
      <4>2. UidOf[q] \in Uids
        BY <1>0
      <4>3. h = p => phase'[h] = "dead"
        BY <1>0, <2>1 DEF TypeOK
      <4> QED
        BY <1>0, <3>1, <3>6, <4>1, <4>2, <4>3 DEF TypeOK
    <3> QED
      BY <2>1, <2>2, <3>3, <3>4, <3>5, <3>6, GroupRemoving
  <2> QED
    BY <2>3, <2>4
<1>2. ASSUME NEW u \in Uids, HandleOnAppStopped(u) PROVE GroupInv'
  <2>1. /\ \A q \in Pids : recs'[q] = IF UidOf[q] = u THEN None ELSE recs[q]
        /\ focused' = [focused EXCEPT ![u] = None] /\ hosts' = [hosts EXCEPT ![u] = {}]
        /\ fresh' = {q \in fresh : UidOf[q] # u} /\ UNCHANGED <<phase, timers>>
    BY <1>2 DEF HandleOnAppStopped
  <2>2. fresh' \subseteq {q \in fresh : recs'[q] # None}
    BY <1>0, <2>1 DEF GroupInv, GroupIsCurrent, TypeOK
  <2>3. \A q \in Pids : recs'[q] # None =>
          /\ UidOf[q] # u /\ focused'[UidOf[q]] = focused[UidOf[q]]
          /\ hosts'[UidOf[q]] = hosts[UidOf[q]]
    BY <1>0, <2>1 DEF TypeOK
  <2> QED
    BY <2>1, <2>2, <2>3, GroupRemoving
<1>3. CASE Restart
  BY <1>3
  DEF Restart, GroupInv, SubWinTaskIsTimed, GroupIsCurrent, HostKnown, RenderState
<1> QED
  BY <1>1, <1>2, <1>3

LEMMA GroupReload ==
  ASSUME Inv, GroupInv, NEW S \in SUBSET Pids, NEW C \in SUBSET Pids, HandleAbilityAdded(S, C)
  PROVE  GroupInv'
<1> DEFINE made(p) == IF recs[p] = None THEN NewRecord ELSE recs[p]
           child(p) == [made(p) EXCEPT !.type = "CHILD", !.hostPid = HostOf[p]]
<1>0. TypeOK /\ recs \in Records /\ UidOf \in [Pids -> Uids] /\ None \notin ProcessRecord
  BY CgroupAssumption DEF Inv, TypeOK, Records
<1>1. /\ UNCHANGED <<phase, focused, timers, fresh>>
      /\ recs' = [p \in Pids |-> IF p \in C THEN child(p)
                                 ELSE IF p \in S THEN made(p) ELSE recs[p]]
      /\ hosts' = [u \in Uids |-> hosts[u] \cup {HostOf[p] : p \in {c \in C : UidOf[c] = u}}]
      /\ \A p \in C : TypeOf[p] = "CHILD"
  BY DEF HandleAbilityAdded
<1>2. ASSUME NEW p \in Pids PROVE made(p) \in ProcessRecord
  BY <1>0, NewRecordType DEF Records
<1>3. ASSUME NEW p \in C
      PROVE  /\ child(p).type = "CHILD" /\ child(p).cur = made(p).cur
             /\ child(p).webSubWin = made(p).webSubWin /\ child(p) # None
  <2>1. made(p) \in ProcessRecord /\ HostOf[p] \in Pids
    BY <1>1, <1>2, CgroupAssumption DEF Main
  <2> HIDE DEF made
  <2>2. child(p) \in ProcessRecord
    BY <2>1 DEF ProcessRecord, Attached
  <2> QED
    BY <1>0, <2>1, <2>2 DEF ProcessRecord
<1> HIDE DEF child
<1>4. ASSUME NEW q \in Pids, recs'[q] # None
      PROVE  /\ q \notin C => recs'[q] = recs[q] \/ (recs[q] = None /\ recs'[q] = NewRecord)
             /\ q \in C => recs'[q].type = "CHILD"
             /\ recs'[q].webSubWin => recs[q] # None /\ recs[q].webSubWin
             /\ IF recs[q] = None THEN recs'[q].cur = UPPER ELSE recs'[q].cur = recs[q].cur
  BY <1>1, <1>3, <1>4 DEF NewRecord
<1>5. \A q \in Pids : recs[q] # None => recs'[q] # None
  BY <1>1, <1>3
<1>6. SubWinTaskIsTimed'
  BY <1>1, <1>4 DEF GroupInv, SubWinTaskIsTimed
<1>7. GroupIsCurrent'
  <2> SUFFICES ASSUME NEW q \in fresh'
               PROVE  /\ recs'[q] # None
                      /\ recs'[q].type \in Main =>
                           recs'[q].set = ComputeProcessGroup(recs', focused', q, "event")
    BY DEF GroupIsCurrent, ComputeProcessGroup, HostGroup
  <2>1. q \in Pids /\ q \in fresh /\ recs[q] # None /\ recs'[q] # None
    BY <1>0, <1>1, <1>5 DEF TypeOK, GroupInv, GroupIsCurrent
  <2>2. CASE q \in C
    BY <1>4, <2>1, <2>2 DEF Main
  <2>3. CASE q \notin C
    <3>1. recs'[q] = recs[q] /\ UNCHANGED focused
      BY <1>1, <1>4, <2>1, <2>3
    <3>2. recs[q].type \in Main => recs[q].set = ComputeProcessGroup(recs, focused, q, "event")
      BY <2>1 DEF GroupInv, GroupIsCurrent
    <3> QED
      BY <2>1, <3>1, <3>2 DEF ComputeProcessGroup, Main
  <2> QED
    BY <2>2, <2>3
<1>8. ASSUME NEW q \in Pids PROVE HostKnown(q)'
  <2>1. UidOf[q] \in Uids /\ hosts[UidOf[q]] \subseteq hosts'[UidOf[q]]
    BY <1>0, <1>1
  <2>2. HostKnown(q)
    BY DEF GroupInv
  <2> QED
    BY <1>1, <1>4, <2>1, <2>2 DEF HostKnown, NewRecord
<1>9. ASSUME NEW q \in Pids PROVE RenderState(q)'
  <2> SUFFICES ASSUME recs'[q] # None, recs'[q].type = "RENDER", recs'[q].set # UPPER,
                      phase'[HostOf[q]] # "dead", recs'[HostOf[q]] # None,
                      recs'[HostOf[q]].cur # UPPER
               PROVE  recs'[q].set = recs'[HostOf[q]].cur
    BY DEF RenderState
  <2>1. recs'[q] = recs[q]
    BY <1>4 DEF NewRecord
  <2>2. TypeOf[q] = "RENDER"
    BY <2>1 DEF GroupInv, HostKnown
  <2>3. PICK h \in Pids : h = HostOf[q]
    BY <2>2, HostFacts
  <2>4. recs[h] # None /\ recs[h].cur = recs'[h].cur /\ phase[h] # "dead"
    BY <1>1, <1>4, <2>3
  <2> QED
    BY <2>1, <2>3, <2>4 DEF GroupInv, RenderState
<1> QED
  BY <1>6, <1>7, <1>8, <1>9 DEF GroupInv

LEMMA GroupInit == Init => GroupInv
  BY DEF Init, GroupInv, SubWinTaskIsTimed, GroupIsCurrent, HostKnown, RenderState

LEMMA GroupStep == Inv /\ GroupInv /\ [Next]_vars => GroupInv'
<1> SUFFICES ASSUME Inv, GroupInv, [Next]_vars PROVE GroupInv'
  OBVIOUS
<1>1. ASSUME NEW p \in Pids, ProcessStep(p) PROVE GroupInv'
  BY <1>1, GroupMaking, GroupKnown, GroupFocus, GroupOther, GroupEnding DEF ProcessStep
<1>2. CASE UNCHANGED vars
  BY <1>2 DEF vars, app, GroupInv, SubWinTaskIsTimed, GroupIsCurrent, HostKnown, RenderState,
              ComputeProcessGroup, HostGroup
<1> QED
  BY <1>1, <1>2, GroupOther, GroupEnding, GroupReload DEF Next

LEMMA GroupAlways == Spec => [](Inv /\ GroupInv)
<1>1. Inv /\ GroupInv /\ [Next]_vars => (Inv /\ GroupInv)'
  BY InvStep, GroupStep
<1> QED
  BY <1>1, InvInit, GroupInit, PTL DEF Spec

(* No handler forgets to adjust, for any processes, abilities and windows   *)
(* and whatever the order of events: the group a main process asks for is   *)
(* the one CgroupAdjuster::ComputeProcessGroup gives for its record now.    *)
THEOREM GroupsCurrent == Spec => []GroupIsCurrent
<1>1. Inv /\ GroupInv => GroupIsCurrent
  BY DEF GroupInv
<1> QED
  BY <1>1, GroupAlways, PTL

(* A web sub-window task that is on always has its timer, although the      *)
(* timer outlives the record (HandleReportWebSubWinTaskStatus).             *)
THEOREM SubWinTimed == Spec => []SubWinTaskIsTimed
<1>1. Inv /\ GroupInv => SubWinTaskIsTimed
  BY DEF GroupInv
<1> QED
  BY <1>1, GroupAlways, PTL

(* A render process asks for the group its live host is in, whichever of    *)
(* the two is known first, with failing writes and restarts of the service. *)
THEOREM RendersFollow == Spec => []RenderFollowsHost
<1>1. Inv /\ GroupInv => RenderFollowsHost
  BY DEF GroupInv, HostKnown, RenderState, RenderFollowsHost, FollowsHost, Running
<1> QED
  BY <1>1, GroupAlways, PTL
=============================================================================
