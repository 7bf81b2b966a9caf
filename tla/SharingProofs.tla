---------------------------- MODULE SharingProofs ----------------------------
(***************************************************************************)
(* Proofs about what threads and processes share: the inter-process        *)
(* mutexes (ProcMutex), each of its four schemes, the cache of templates   *)
(* (Templates), whose entries are held by count, the shared cache          *)
(* (SharedCache), whose slots are written under a mutex, and the queue of  *)
(* scheduled commands (Commands); for any number of threads, processes,    *)
(* mutexes, templates, keys, slots and requests.                           *)
(***************************************************************************)
EXTENDS ProcMutex, Templates, SharedCache, Commands, ProofLemmas

(***************************************************************************)
(* Inter-process mutexes                                                   *)
(***************************************************************************)
MtxTypeOK ==
  /\ scheme \in {"sysv", "posix", "file", "pthread"}
  /\ owner \in [Mutexes -> MtxThreads \cup {Free}]
  /\ local \in [MtxProcs -> [Mutexes -> MtxThreads \cup {Free}]]
  /\ mtxPc \in [MtxThreads -> {Outside} \cup [pc : {"wait", "in"}, mtx : Mutexes]]
  /\ repair \in {Resting} \cup [pc : {"rebuild"}, mtx : Mutexes]

(* The dead do nothing.                                                    *)
DeadAreOut == \A t \in MtxThreads : ~Alive(t) => mtxPc[t].pc = "out"

(* In the file scheme, whoever waits for a mutex or is inside has the      *)
(* pthread mutex of its process, which keeps its siblings out.             *)
FileScheme ==
  scheme = "file" =>
    \A t \in MtxThreads : mtxPc[t].pc # "out" => local[ProcOf[t]][mtxPc[t].mtx] = t

(* Whoever is inside a mutex that was not rebuilt owns it.                 *)
InsideOwns ==
  \A t \in MtxThreads :
    mtxPc[t].pc = "in" /\ mtxPc[t].mtx \notin rebuilt => owner[mtxPc[t].mtx] = t

(* A mutex is owned by someone inside, or by the dead.                     *)
OwnerInside ==
  scheme # "posix" =>
    \A m \in Mutexes : owner[m] # Free =>
      \/ mtxPc[owner[m]].pc = "in" /\ mtxPc[owner[m]].mtx = m
      \/ scheme = "pthread" /\ ~Alive(owner[m])

MtxInv == MtxTypeOK /\ DeadAreOut /\ FileScheme /\ InsideOwns /\ OwnerInside

(* The inter-process mutexes start well formed.                            *)
LEMMA MtxInit == ProcMutexInit => MtxInv
  BY ProcMutexAssumption
  DEF ProcMutexInit, MtxInv, MtxTypeOK, DeadAreOut, FileScheme, InsideOwns, OwnerInside,
      Outside, Resting, MtxProcs

(* Every step of a thread, of the death of a process and of the monitor's  *)
(* repair keeps the invariant; one step per action.                        *)
LEMMA MtxStep == MtxInv /\ [ProcMutexNext]_pmVars => MtxInv'
  <1>. SUFFICES ASSUME MtxInv, [ProcMutexNext]_pmVars PROVE MtxInv'
    OBVIOUS
  <1>. USE ProcMutexAssumption
       DEF MtxInv, MtxTypeOK, DeadAreOut, FileScheme, InsideOwns, OwnerInside,
           Outside, Resting, MtxProcs, Alive
  <1>1. ASSUME NEW m \in Mutexes, ci_proc_mutex_init(m) PROVE MtxInv'
    BY <1>1 DEF ci_proc_mutex_init
  <1>2. ASSUME NEW m \in Mutexes, ci_proc_mutex_destroy(m) PROVE MtxInv'
    BY <1>2 DEF ci_proc_mutex_destroy
  <1>3. ASSUME NEW m \in Mutexes, RepairTry(m) PROVE MtxInv'
    BY <1>3 DEF RepairTry, OwnerDied
  <1>4. ASSUME NEW t \in MtxThreads, NEW m \in Mutexes, StartLock(t, m) PROVE MtxInv'
    BY <1>4, SMTT(40) DEF StartLock
  <1>5. ASSUME NEW t \in MtxThreads, ci_proc_mutex_lock(t) PROVE MtxInv'
    BY <1>5 DEF ci_proc_mutex_lock, Obtainable, OwnerDied
  <1>6. ASSUME NEW t \in MtxThreads, LockInterrupted(t) PROVE MtxInv'
    BY <1>6, SMTT(40) DEF LockInterrupted
  <1>7. ASSUME NEW t \in MtxThreads, ci_proc_mutex_unlock(t) PROVE MtxInv'
    BY <1>7 DEF ci_proc_mutex_unlock
  <1>8. ASSUME NEW p \in MtxProcs, ProcessDies(p) PROVE MtxInv'
    BY <1>8 DEF ProcessDies
  <1>9. CASE RepairRebuild
    BY <1>9 DEF RepairRebuild
  <1>10. CASE UNCHANGED pmVars
    BY <1>10 DEF pmVars
  <1>. QED
    BY <1>1, <1>2, <1>3, <1>4, <1>5, <1>6, <1>7, <1>8, <1>9, <1>10 DEF ProcMutexNext

(* The invariant has it that at most the owner is inside a mutex that was  *)
(* not rebuilt, and that a mutex nobody is inside is free, or its owner    *)
(* dead and the mutex robust.                                              *)
LEMMA MtxInvSound == MtxInv => MutexSound
  <1>. SUFFICES ASSUME MtxInv PROVE MutexSound
    OBVIOUS
  <1>1. ASSUME NEW m \in Mutexes \ rebuilt PROVE Cardinality(Inside(m)) <= 1
    <2>1. Inside(m) \subseteq {owner[m]}
      BY DEF Inside, MtxInv, InsideOwns
    <2>2. IsFiniteSet({owner[m]}) /\ Cardinality({owner[m]}) = 1
      BY FS_Singleton
    <2>. QED
      BY <2>1, <2>2, FS_Subset
  <1>2. ASSUME scheme # "posix", NEW t \in MtxThreads, Alive(t), mtxPc[t].pc = "wait",
               Inside(mtxPc[t].mtx) = {}
        PROVE  Obtainable(mtxPc[t].mtx, t)
    <2>1. mtxPc[t].mtx \in Mutexes
      BY <1>2 DEF MtxInv, MtxTypeOK, Outside
    <2>. QED
      BY <1>2, <2>1 DEF Obtainable, OwnerDied, Inside, MtxInv, MtxTypeOK, OwnerInside
  <1>. QED
    BY <1>1, <1>2 DEF MutexSound

(* Mutual exclusion of the inter-process mutexes, in every scheme, and no  *)
(* mutex stays locked by a dead owner or an interrupted call except a      *)
(* posix semaphore.                                                        *)
THEOREM MutexesSound == ProcMutexSpec => []MutexSound
  <1>1. ProcMutexInit => MtxInv
    BY MtxInit
  <1>2. MtxInv /\ [ProcMutexNext]_pmVars => MtxInv'
    BY MtxStep
  <1>3. MtxInv => MutexSound
    BY MtxInvSound
  <1>. QED
    BY <1>1, <1>2, <1>3, PTL DEF ProcMutexSpec

(***************************************************************************)
(* Templates                                                               *)
(***************************************************************************)
TmplRec == [lang : Languages, data : Nat, locked : Nat, must_free : BOOLEAN]
ThreadRec ==
  [at : {"idle", "find", "load", "store", "use", "release"}, langs : Seq(Languages),
   slot : Slots \cup {0}, text : Nat, must_free : BOOLEAN]

TmplTypeOK ==
  /\ files \in [Languages -> Nat]
  /\ templates \in [Slots -> TmplRec]
  /\ tmplAt \in [TmplThreads -> ThreadRec]

(* A thread that is at work has a language left to try, a text once it has *)
(* found or read one, and a slot when it releases one.                     *)
ThreadHolds ==
  \A t \in TmplThreads :
    /\ tmplAt[t].at # "idle" => tmplAt[t].langs # <<>>
    /\ tmplAt[t].at \in {"store", "use", "release"} => tmplAt[t].text # 0
    /\ tmplAt[t].at = "release" => tmplAt[t].slot # 0

TmplInv == TmplTypeOK /\ ThreadHolds /\ TemplatesHeld

(* The first of the slots that a search finds is one of them.              *)
LEMMA FirstSlot ==
  ASSUME NEW S \in SUBSET Slots, S # {}
  PROVE  Min(S) \in S
  <1>1. S \subseteq Nat
    BY DEF Slots
  <1>. QED
    BY <1>1, LeastOfNats DEF Min

(* An empty cache, and no thread at work.                                  *)
LEMMA TmplInit == TemplatesInit => TmplInv
  <1>. SUFFICES ASSUME TemplatesInit PROVE TmplInv
    OBVIOUS
  <1>. USE TemplatesAssumption DEF TemplatesInit
  <1>1. TmplTypeOK
    BY EmptySeq DEF TmplTypeOK, TmplRec, ThreadRec, Empty, NoThread
  <1>2. ThreadHolds
    BY DEF ThreadHolds, NoThread
  <1>3. \A i \in Slots : UsersOf(i) = {}
    BY DEF UsersOf, NoThread
  <1>. QED
    BY <1>1, <1>2, <1>3, FS_EmptySet DEF TmplInv, TemplatesHeld, Empty

(* A step of one thread: what it has becomes r, and the users of a slot    *)
(* are the others and, if r uses the slot, this thread.                    *)
LEMMA ThreadStep ==
  ASSUME TmplTypeOK, ThreadHolds, NEW t \in TmplThreads, NEW r \in ThreadRec,
         tmplAt' = [tmplAt EXCEPT ![t] = r],
         /\ r.at # "idle" => r.langs # <<>>
         /\ r.at \in {"store", "use", "release"} => r.text # 0
         /\ r.at = "release" => r.slot # 0
  PROVE  /\ tmplAt' \in [TmplThreads -> ThreadRec]
         /\ ThreadHolds'
         /\ tmplAt'[t] = r
         /\ \A s \in TmplThreads \ {t} : tmplAt'[s] = tmplAt[s]
         /\ \A i : UsersOf(i)' = IF r.at \in {"use", "release"} /\ r.slot = i
                                 THEN UsersOf(i) \cup {t} ELSE UsersOf(i) \ {t}
  <1>1. tmplAt' \in [TmplThreads -> ThreadRec] /\ tmplAt'[t] = r
    BY DEF TmplTypeOK
  <1>2. \A s \in TmplThreads \ {t} : tmplAt'[s] = tmplAt[s]
    BY DEF TmplTypeOK
  <1>3. ThreadHolds'
    BY <1>1, <1>2 DEF ThreadHolds
  <1>. QED
    BY <1>1, <1>2, <1>3 DEF UsersOf

(* A step of one thread that leaves the cache alone and neither begins nor *)
(* ends to use a template.                                                 *)
LEMMA IdleStep ==
  ASSUME TmplTypeOK, ThreadHolds, TemplatesHeld, NEW t \in TmplThreads, NEW r \in ThreadRec,
         tmplAt' = [tmplAt EXCEPT ![t] = r], files' = files, templates' = templates,
         /\ r.at # "idle" => r.langs # <<>>
         /\ r.at \in {"store", "use", "release"} => r.text # 0
         /\ r.at = "release" => r.slot # 0,
         \A i \in Slots :
           IF r.at \in {"use", "release"} /\ r.slot = i
           THEN t \in UsersOf(i) /\ r.text = tmplAt[t].text /\ r.langs = tmplAt[t].langs
           ELSE t \notin UsersOf(i)
  PROVE  TmplInv'
  <1>1. /\ tmplAt' \in [TmplThreads -> ThreadRec] /\ ThreadHolds' /\ tmplAt'[t] = r
        /\ \A s \in TmplThreads \ {t} : tmplAt'[s] = tmplAt[s]
        /\ \A i : UsersOf(i)' = IF r.at \in {"use", "release"} /\ r.slot = i
                                THEN UsersOf(i) \cup {t} ELSE UsersOf(i) \ {t}
    BY ThreadStep
  <1>2. \A i \in Slots : UsersOf(i)' = UsersOf(i)
    BY <1>1
  <1>3. \A i \in Slots : \A s \in UsersOf(i) :
           tmplAt'[s].text = tmplAt[s].text /\ tmplAt'[s].langs = tmplAt[s].langs
    BY <1>1, <1>2 DEF UsersOf
  <1>4. TemplatesHeld'
    BY <1>2, <1>3 DEF TemplatesHeld
  <1>. QED
    BY <1>1, <1>4 DEF TmplInv, TmplTypeOK

(* A thread that uses nothing begins to use slot m, whose template becomes *)
(* tm: the same text with one more user, or a text in a slot without users.*)
LEMMA BeginUse ==
  ASSUME TmplTypeOK, ThreadHolds, TemplatesHeld,
         NEW t \in TmplThreads, NEW r \in ThreadRec, NEW m \in Slots, IsFiniteSet(UsersOf(m)), NEW tm \in TmplRec,
         \A i : t \notin UsersOf(i),
         files' = files, templates' = [templates EXCEPT ![m] = tm],
         tmplAt' = [tmplAt EXCEPT ![t] = r],
         r.at = "use" /\ r.slot = m /\ r.text = tm.data /\ r.langs # <<>>,
         tm.data # 0 /\ tm.lang = Head(r.langs) /\ tm.locked = templates[m].locked + 1,
         UsersOf(m) # {} => tm.data = templates[m].data /\ tm.lang = templates[m].lang
  PROVE  TmplInv'
  <1>1. /\ tmplAt' \in [TmplThreads -> ThreadRec] /\ ThreadHolds' /\ tmplAt'[t] = r
        /\ \A s \in TmplThreads \ {t} : tmplAt'[s] = tmplAt[s]
        /\ \A i : UsersOf(i)' = IF r.at \in {"use", "release"} /\ r.slot = i
                                THEN UsersOf(i) \cup {t} ELSE UsersOf(i) \ {t}
    BY ThreadStep
  <1>2. UsersOf(m)' = UsersOf(m) \cup {t} /\ \A i : i # m => UsersOf(i)' = UsersOf(i)
    BY <1>1
  <1>3. Cardinality(UsersOf(m)') = Cardinality(UsersOf(m)) + 1
    BY <1>2, FS_AddElement
  <1>4. templates'[m] = tm /\ \A i \in Slots \ {m} : templates'[i] = templates[i]
    BY DEF TmplTypeOK
  <1>5. \A i \in Slots : \A s \in UsersOf(i) : s \in TmplThreads \ {t}
    BY DEF UsersOf
  <1>6. TemplatesHeld'
    <2>. SUFFICES ASSUME NEW i \in Slots
                  PROVE  /\ templates'[i].locked = Cardinality(UsersOf(i)')
                         /\ \A s \in UsersOf(i)' :
                              /\ templates'[i].data = tmplAt'[s].text
                              /\ templates'[i].lang = Head(tmplAt'[s].langs)
                         /\ templates'[i].data # 0 /\ templates'[i].must_free => UsersOf(i)' # {}
      BY DEF TemplatesHeld
    <2>1. CASE i = m
      BY <2>1, <1>1, <1>2, <1>3, <1>4, <1>5 DEF TemplatesHeld
    <2>2. CASE i # m
      BY <2>2, <1>1, <1>2, <1>4, <1>5 DEF TemplatesHeld
    <2>. QED
      BY <2>1, <2>2
  <1>7. TmplTypeOK'
    BY <1>1 DEF TmplTypeOK
  <1>. QED
    BY <1>1, <1>6, <1>7 DEF TmplInv

(* The thread t ends to use slot m: the count goes down, and the text goes *)
(* with the last user if it is to be freed.                                *)
LEMMA EndUse ==
  ASSUME TmplTypeOK, ThreadHolds, TemplatesHeld, NEW t \in TmplThreads, NEW m \in Slots,
         NEW must_free \in BOOLEAN, IsFiniteSet(UsersOf(m)),
         t \in UsersOf(m), \A i : i # m => t \notin UsersOf(i),
         files' = files, templates' = [templates EXCEPT ![m] = Released(templates[m], must_free)],
         tmplAt' = [tmplAt EXCEPT ![t] = NoThread]
  PROVE  TmplInv'
  <1>. DEFINE tm == Released(templates[m], must_free)
              left == UsersOf(m) \ {t}
  <1>1. /\ Cardinality(left) = Cardinality(UsersOf(m)) - 1
        /\ Cardinality(UsersOf(m)) \in Nat /\ Cardinality(left) \in Nat
        /\ Cardinality(left) = 0 <=> left = {}
    BY FS_RemoveElement, FS_CardinalityType, FS_EmptySet
  <1>2. templates[m] \in TmplRec /\ templates[m].locked = Cardinality(UsersOf(m))
    BY DEF TmplTypeOK, TemplatesHeld
  <1>. HIDE DEF left
  <1>3. /\ tm \in TmplRec /\ tm.locked = Cardinality(left) /\ tm.lang = templates[m].lang
        /\ left # {} => tm.data = templates[m].data
        /\ tm.data # 0 /\ tm.must_free => left # {}
    <2>1. (IF templates[m].locked > 0 THEN templates[m].locked - 1 ELSE 0) = Cardinality(left)
      BY <1>1, <1>2
    <2>2. CASE must_free /\ Cardinality(left) = 0
      BY <1>1, <1>2, <2>1, <2>2 DEF Released, TmplRec
    <2>3. CASE ~(must_free /\ Cardinality(left) = 0)
      BY <1>1, <1>2, <2>1, <2>3 DEF Released, TmplRec
    <2>. QED
      BY <2>2, <2>3
  <1>4. NoThread \in ThreadRec /\ NoThread.at = "idle"
    BY EmptySeq DEF ThreadRec, NoThread
  <1>. HIDE DEF tm
  <1>5. /\ tmplAt' \in [TmplThreads -> ThreadRec] /\ ThreadHolds'
        /\ \A s \in TmplThreads \ {t} : tmplAt'[s] = tmplAt[s]
        /\ \A i : UsersOf(i)' = IF NoThread.at \in {"use", "release"} /\ NoThread.slot = i
                                THEN UsersOf(i) \cup {t} ELSE UsersOf(i) \ {t}
    BY <1>4, ThreadStep
  <1>6. UsersOf(m)' = left /\ \A i : i # m => UsersOf(i)' = UsersOf(i)
    BY <1>4, <1>5 DEF left
  <1>7. templates'[m] = tm /\ \A i \in Slots \ {m} : templates'[i] = templates[i]
    BY DEF TmplTypeOK, tm
  <1>8. \A i : \A s \in UsersOf(i)' : s \in TmplThreads \ {t} /\ s \in UsersOf(i)
    BY <1>6 DEF UsersOf, left
  <1>9. TemplatesHeld'
    <2>. SUFFICES ASSUME NEW i \in Slots
                  PROVE  /\ templates'[i].locked = Cardinality(UsersOf(i)')
                         /\ \A s \in UsersOf(i)' :
                              /\ templates'[i].data = tmplAt'[s].text
                              /\ templates'[i].lang = Head(tmplAt'[s].langs)
                         /\ templates'[i].data # 0 /\ templates'[i].must_free => UsersOf(i)' # {}
      BY DEF TemplatesHeld
    <2>1. CASE i = m
      BY <2>1, <1>3, <1>5, <1>6, <1>7, <1>8 DEF TemplatesHeld
    <2>2. CASE i # m
      BY <2>2, <1>5, <1>6, <1>7, <1>8 DEF TemplatesHeld
    <2>. QED
      BY <2>1, <2>2
  <1>10. TmplTypeOK'
    BY <1>3, <1>5 DEF TmplTypeOK, tm
  <1>. QED
    BY <1>5, <1>9, <1>10 DEF TmplInv

(* Every step of a worker, and every new version of a file, keeps the      *)
(* invariant; one step per action, and under those that begin or end a use *)
(* what becomes of the users of the slot and of its count.                 *)
LEMMA TmplStep == TmplInv /\ [TemplatesNext]_tmplVars => TmplInv'
  <1>. SUFFICES ASSUME TmplTypeOK, ThreadHolds, TemplatesHeld, [TemplatesNext]_tmplVars
                PROVE  TmplInv'
    BY DEF TmplInv
  <1>. USE TemplatesAssumption
  <1>u. \A i : IsFiniteSet(UsersOf(i))
    <2>. TAKE i
    <2>1. UsersOf(i) \in SUBSET TmplThreads
      BY DEF UsersOf
    <2>. QED
      BY <2>1, FS_Subset
  <1>t. \A s \in TmplThreads : tmplAt[s] \in ThreadRec
    BY DEF TmplTypeOK
  <1>m. \A i \in Slots : templates[i] \in TmplRec
    BY DEF TmplTypeOK
  <1>1. ASSUME NEW l \in Languages, Edit(l) PROVE TmplInv'
    <2>1. TmplTypeOK' /\ ThreadHolds'
      BY <1>1 DEF Edit, TmplTypeOK, ThreadHolds
    <2>. QED
      BY <1>1, <2>1 DEF Edit, TmplInv, TemplatesHeld, UsersOf
  <1>2. ASSUME NEW t \in TmplThreads, NEW accept \in AcceptLanguages,
               ci_txt_template_build_content(t, accept)
        PROVE  TmplInv'
    <2>. DEFINE langs == Append(accept, TEMPLATE_DEF_LANG)
                r == [NoThread EXCEPT !.at = "find", !.langs = langs]
    <2>1. langs \in Seq(Languages) /\ langs # <<>>
      BY AppendProperties
    <2>2. r \in ThreadRec /\ r.at = "find" /\ r.langs = langs
      BY <2>1 DEF ThreadRec, NoThread
    <2>3. \A i : t \notin UsersOf(i)
      BY <1>2 DEF ci_txt_template_build_content, UsersOf
    <2>4. tmplAt' = [tmplAt EXCEPT ![t] = r] /\ files' = files /\ templates' = templates
      BY <1>2 DEF ci_txt_template_build_content
    <2>. HIDE DEF r, langs
    <2>. QED
      BY <2>1, <2>2, <2>3, <2>4, IdleStep
  <1>3. ASSUME NEW t \in TmplThreads, TryFind(t) PROVE TmplInv'
    <2>. DEFINE found == templateFind(Head(tmplAt[t].langs))
    <2>a. tmplAt[t] \in ThreadRec /\ tmplAt[t].at = "find" /\ tmplAt[t].langs # <<>> /\ files' = files
      BY <1>t, <1>3 DEF TryFind, ThreadHolds
    <2>b. \A i : t \notin UsersOf(i)
      BY <2>a DEF UsersOf
    <2>1. CASE found = {}
      <3>. DEFINE r == [tmplAt[t] EXCEPT !.at = "load"]
      <3>1. r \in ThreadRec /\ r.at = "load" /\ r.langs = tmplAt[t].langs
        BY <2>a DEF ThreadRec
      <3>2. tmplAt' = [tmplAt EXCEPT ![t] = r] /\ templates' = templates
        BY <1>3, <2>1 DEF TryFind
      <3>. HIDE DEF r
      <3>. QED
        BY <2>a, <2>b, <3>1, <3>2, IdleStep
    <2>2. CASE found # {}
      <3>. DEFINE m == Min(found)
                  r == [tmplAt[t] EXCEPT !.at = "use", !.slot = m, !.text = templates[m].data]
                  tm == [templates[m] EXCEPT !.locked = @ + 1]
      <3>1. m \in found /\ m \in Slots
        BY <2>2, FirstSlot DEF templateFind
      <3>2. /\ templates[m].data # 0 /\ ~templates[m].must_free
            /\ templates[m].lang = Head(tmplAt[t].langs)
        BY <3>1 DEF templateFind
      <3>. HIDE DEF m
      <3>3. templates' = [templates EXCEPT ![m] = tm] /\ tmplAt' = [tmplAt EXCEPT ![t] = r]
        BY <1>3, <2>2 DEF TryFind, m
      <3>4. /\ r \in ThreadRec /\ r.at = "use" /\ r.slot = m /\ r.text = templates[m].data
            /\ r.langs = tmplAt[t].langs
        BY <2>a, <3>1, <1>m DEF ThreadRec, TmplRec
      <3>5. /\ tm \in TmplRec /\ tm.locked = templates[m].locked + 1 /\ tm.data = templates[m].data
            /\ tm.lang = templates[m].lang /\ tm.must_free = templates[m].must_free
        BY <3>1, <1>m DEF TmplRec
      <3>. HIDE DEF r, tm, found
      <3>. QED
        BY <2>a, <2>b, <1>u, <3>1, <3>2, <3>3, <3>4, <3>5, BeginUse, ZenonT(40)
    <2>. QED
      BY <2>1, <2>2
  <1>4. ASSUME NEW t \in TmplThreads, TryLoad(t) PROVE TmplInv'
    <2>a. /\ tmplAt[t] \in ThreadRec /\ tmplAt[t].at = "load" /\ tmplAt[t].langs # <<>>
          /\ files' = files /\ templates' = templates
      BY <1>t, <1>4 DEF TryLoad, ThreadHolds
    <2>b. \A i : t \notin UsersOf(i)
      BY <2>a DEF UsersOf
    <2>. DEFINE l == Head(tmplAt[t].langs)
    <2>1. ASSUME files[l] # 0, tmplAt' = [tmplAt EXCEPT ![t].at = "store", ![t].text = files[l]]
          PROVE  TmplInv'
      <3>. DEFINE r == [tmplAt[t] EXCEPT !.at = "store", !.text = files[l]]
      <3>1. tmplAt[t].langs \in Seq(Languages)
        BY <2>a DEF ThreadRec
      <3>2. files[l] \in Nat
        BY <3>1, <2>a DEF TmplTypeOK
      <3>. HIDE DEF l
      <3>3. r \in ThreadRec /\ r.at = "store" /\ r.langs = tmplAt[t].langs /\ r.text = files[l]
        BY <2>a, <3>2 DEF ThreadRec
      <3>4. tmplAt' = [tmplAt EXCEPT ![t] = r]
        BY <2>1
      <3>. HIDE DEF r
      <3>. QED
        BY <2>1, <2>a, <2>b, <3>3, <3>4, IdleStep
    <2>2. ASSUME tmplAt' = [tmplAt EXCEPT ![t] = IF Len(tmplAt[t].langs) = 1 THEN NoThread
                                               ELSE [tmplAt[t] EXCEPT !.at = "find", !.langs = Tail(@)]]
          PROVE  TmplInv'
      <3>. DEFINE r == IF Len(tmplAt[t].langs) = 1 THEN NoThread
                       ELSE [tmplAt[t] EXCEPT !.at = "find", !.langs = Tail(@)]
      <3>1. tmplAt[t].langs \in Seq(Languages)
        BY <2>a DEF ThreadRec
      <3>2. /\ Tail(tmplAt[t].langs) \in Seq(Languages)
            /\ Len(tmplAt[t].langs) # 1 => Tail(tmplAt[t].langs) # <<>>
        <4>1. tmplAt[t].langs # <<>> /\ Len(tmplAt[t].langs) \in Nat
          BY <3>1, <2>a
        <4>2. Tail(tmplAt[t].langs) \in Seq(Languages) /\ Len(Tail(tmplAt[t].langs)) = Len(tmplAt[t].langs) - 1
          BY <3>1, <4>1, HeadTailProperties
        <4>3. Tail(tmplAt[t].langs) = <<>> => Len(tmplAt[t].langs) = 1
          <5>. DEFINE tl == Tail(tmplAt[t].langs)
          <5>1. Len(tl) = Len(tmplAt[t].langs) - 1 /\ Len(<<>>) = 0
            BY <4>2, EmptySeq
          <5>2. Len(tl) = 0 => Len(tmplAt[t].langs) = 1
            BY <4>1, <4>2
          <5>. HIDE DEF tl
          <5>3. tl = <<>> => Len(tl) = 0
            BY <5>1
          <5>. QED
            BY <5>2, <5>3 DEF tl
        <4>. QED
          BY <4>2, <4>3
      <3>3. CASE Len(tmplAt[t].langs) = 1
        <4>1. r \in ThreadRec /\ r.at = "idle"
          BY <3>3, EmptySeq DEF ThreadRec, NoThread
        <4>2. tmplAt' = [tmplAt EXCEPT ![t] = r]
          BY <2>2
        <4>. HIDE DEF r
        <4>. QED
          BY <2>a, <2>b, <4>1, <4>2, IdleStep
      <3>4. CASE Len(tmplAt[t].langs) # 1
        <4>1. r \in ThreadRec /\ r.at = "find" /\ r.langs = Tail(tmplAt[t].langs)
          BY <2>a, <3>2, <3>4 DEF ThreadRec
        <4>2. tmplAt' = [tmplAt EXCEPT ![t] = r]
          BY <2>2
        <4>. HIDE DEF r
        <4>. QED
          BY <2>a, <2>b, <3>2, <3>4, <4>1, <4>2, IdleStep
      <3>. QED
        BY <3>3, <3>4
    <2>. QED
      BY <1>4, <2>1, <2>2 DEF TryLoad
  <1>5. ASSUME NEW t \in TmplThreads, TryStore(t) PROVE TmplInv'
    <2>a. /\ tmplAt[t] \in ThreadRec /\ tmplAt[t].at = "store" /\ tmplAt[t].langs # <<>>
          /\ tmplAt[t].text # 0 /\ files' = files
      BY <1>t, <1>5 DEF TryStore, ThreadHolds
    <2>b. \A i : t \notin UsersOf(i)
      BY <2>a DEF UsersOf
    <2>1. CASE templateFindFree = {}
      <3>. DEFINE r == [tmplAt[t] EXCEPT !.at = "use", !.slot = 0]
      <3>1. /\ r \in ThreadRec /\ r.at = "use" /\ r.slot = 0 /\ r.text = tmplAt[t].text
            /\ r.langs = tmplAt[t].langs
        BY <2>a DEF ThreadRec
      <3>2. tmplAt' = [tmplAt EXCEPT ![t] = r] /\ templates' = templates
        BY <1>5, <2>1 DEF TryStore
      <3>3. 0 \notin Slots
        BY DEF Slots
      <3>. HIDE DEF r
      <3>. QED
        BY <2>a, <2>b, <3>1, <3>2, <3>3, IdleStep
    <2>2. CASE templateFindFree # {}
      <3>. DEFINE m == Min(templateFindFree)
                  r == [tmplAt[t] EXCEPT !.at = "use", !.slot = m]
                  tm == [lang |-> Head(tmplAt[t].langs), data |-> tmplAt[t].text,
                         locked |-> templates[m].locked + 1, must_free |-> FALSE]
      <3>1. m \in templateFindFree /\ m \in Slots
        BY <2>2, FirstSlot DEF templateFindFree
      <3>2. templates[m].data = 0
        BY <3>1 DEF templateFindFree
      <3>. HIDE DEF m
      <3>3. UsersOf(m) = {}
        BY <3>1, <3>2 DEF TemplatesHeld, UsersOf, ThreadHolds
      <3>4. templates' = [templates EXCEPT ![m] = tm] /\ tmplAt' = [tmplAt EXCEPT ![t] = r]
        BY <1>5, <2>2 DEF TryStore, m
      <3>5. /\ r \in ThreadRec /\ r.at = "use" /\ r.slot = m /\ r.text = tmplAt[t].text
            /\ r.langs = tmplAt[t].langs
        BY <2>a, <3>1 DEF ThreadRec
      <3>6. Head(tmplAt[t].langs) \in Languages /\ tmplAt[t].text \in Nat
        BY <2>a DEF ThreadRec
      <3>7. tm \in TmplRec
        BY <3>1, <3>6, <1>m DEF TmplRec
      <3>8. /\ tm.locked = templates[m].locked + 1 /\ tm.data = tmplAt[t].text
            /\ tm.lang = Head(tmplAt[t].langs)
        OBVIOUS
      <3>. HIDE DEF r, tm
      <3>. QED
        BY <2>a, <2>b, <1>u, <3>1, <3>3, <3>4, <3>5, <3>7, <3>8, BeginUse, ZenonT(40)
    <2>. QED
      BY <2>1, <2>2
  <1>6. ASSUME NEW t \in TmplThreads, StartRelease(t) PROVE TmplInv'
    <2>a. /\ tmplAt[t] \in ThreadRec /\ tmplAt[t].at = "use" /\ tmplAt[t].langs # <<>>
          /\ tmplAt[t].text # 0 /\ files' = files /\ templates' = templates
      BY <1>t, <1>6 DEF StartRelease, ThreadHolds
    <2>b. \A i : t \in UsersOf(i) <=> tmplAt[t].slot = i
      BY <2>a DEF UsersOf
    <2>1. CASE tmplAt[t].slot = 0
      <3>1. NoThread \in ThreadRec /\ NoThread.at = "idle"
        BY EmptySeq DEF ThreadRec, NoThread
      <3>2. tmplAt' = [tmplAt EXCEPT ![t] = NoThread] /\ 0 \notin Slots
        BY <1>6, <2>1 DEF StartRelease, Slots
      <3>3. \A i \in Slots : t \notin UsersOf(i)
        BY <2>b, <2>1, <3>2
      <3>. QED
        BY <2>a, <3>1, <3>2, <3>3, IdleStep
    <2>2. CASE tmplAt[t].slot # 0
      <3>. DEFINE tm == templates[tmplAt[t].slot]
      <3>1. PICK expired \in templateExpired(tm) :
              tmplAt' = [tmplAt EXCEPT ![t].at = "release", ![t].must_free = tm.must_free \/ expired]
        BY <1>6, <2>2 DEF StartRelease
      <3>. DEFINE r == [tmplAt[t] EXCEPT !.at = "release", !.must_free = tm.must_free \/ expired]
      <3>2. (tm.must_free \/ expired) \in BOOLEAN
        OBVIOUS
      <3>3. /\ r \in ThreadRec /\ r.at = "release" /\ r.slot = tmplAt[t].slot
            /\ r.text = tmplAt[t].text /\ r.langs = tmplAt[t].langs
        BY <2>a, <3>2 DEF ThreadRec
      <3>4. tmplAt' = [tmplAt EXCEPT ![t] = r]
        BY <3>1
      <3>. HIDE DEF r
      <3>. QED
        BY <2>a, <2>b, <2>2, <3>3, <3>4, IdleStep
    <2>. QED
      BY <2>1, <2>2
  <1>7. ASSUME NEW t \in TmplThreads, template_release(t) PROVE TmplInv'
    <2>a. tmplAt[t] \in ThreadRec /\ tmplAt[t].at = "release" /\ tmplAt[t].slot # 0 /\ files' = files
      BY <1>t, <1>7 DEF template_release, ThreadHolds
    <2>1. PICK m \in Slots : m = tmplAt[t].slot
      BY <2>a DEF ThreadRec
    <2>2. t \in UsersOf(m) /\ \A i : i # m => t \notin UsersOf(i)
      BY <2>a, <2>1 DEF UsersOf
    <2>3. /\ templates' = [templates EXCEPT ![m] = Released(templates[m], tmplAt[t].must_free)]
          /\ tmplAt' = [tmplAt EXCEPT ![t] = NoThread]
      BY <1>7, <2>1 DEF template_release
    <2>4. tmplAt[t].must_free \in BOOLEAN
      BY <2>a DEF ThreadRec
    <2>. QED
      BY <2>a, <2>2, <2>3, <2>4, <1>u, EndUse
  <1>8. CASE UNCHANGED tmplVars
    BY <1>8 DEF tmplVars, TmplInv, TmplTypeOK, ThreadHolds, TemplatesHeld, UsersOf
  <1>. QED
    BY <1>1, <1>2, <1>3, <1>4, <1>5, <1>6, <1>7, <1>8 DEF TemplatesNext

(* A template is neither freed nor replaced while it is used, for any      *)
(* number of threads, languages and slots, and no slot is lost.            *)
THEOREM TemplatesAreHeld == TemplatesSpec => []TemplatesHeld
  <1>1. TmplInv => TemplatesHeld
    BY DEF TmplInv
  <1>. QED
    BY TmplInit, TmplStep, <1>1, PTL DEF TemplatesSpec

(***************************************************************************)
(* The shared cache                                                        *)
(***************************************************************************)
SlotRec == [hash : Nat, expires : Nat, key : ShKeys \cup {NoShKey}, val : ShValues \cup {Torn}]
Writing(p) == shOp[p].pc = "writing"
Home(k) == slot[ShHash[k]]

ShTypeOK ==
  /\ shNow \in Nat /\ slot \in [ShSlots -> SlotRec]
  /\ pageLock \in [ShPages -> ShProcs \cup {NoShKey}]
  /\ DOMAIN shOp = ShProcs
  /\ \A p \in ShProcs :
       shOp[p].pc \in {"update", "writing"} =>
         shOp[p].key \in ShKeys /\ shOp[p].val \in ShValues /\ shOp[p].time \in Nat
  /\ \A p \in ShProcs : Writing(p) => shOp[p].pos \in ShSlots
  /\ DOMAIN shLatest = ShKeys

(* The hash of a slot that has been used is its position.                  *)
HashIsPosition ==
  \A s \in ShSlots :
    slot[s].hash \in {0, s} /\ (slot[s].hash = 0 /\ s # 0 => slot[s].key = NoShKey)

(* Whoever writes has the mutex of the page, has no value in its slot yet, *)
(* and writes at home if its key is there.                                 *)
WriterInv(p) ==
  LET o == shOp[p]
  IN  /\ pageLock[Page(ShHash[o.key])] = p /\ Page(o.pos) = Page(ShHash[o.key])
      /\ slot[o.pos].hash = o.pos /\ slot[o.pos].expires = o.time + ShTTL
      /\ slot[o.pos].val = Torn
      /\ Home(o.key).key = o.key => o.pos = ShHash[o.key]
Writers == \A p \in ShProcs : Writing(p) => WriterInv(p)

(* What is at home under its key is the value stored last, or was left by  *)
(* a child that died.                                                      *)
Stored(k) ==
  \/ /\ Home(k).val = shLatest[k].val /\ Home(k).val # Torn
     /\ Home(k).expires = shLatest[k].time + ShTTL /\ shLatest[k].time \in Nat
  \/ Home(k).val = Torn /\ Page(ShHash[k]) \in diedWriting
HomesHoldLatest ==
  \A k \in ShKeys :
    Home(k).key = k => Stored(k) \/ \E p \in ShProcs : Writing(p) /\ shOp[p].pos = ShHash[k]

ShInv == ShTypeOK /\ HashIsPosition /\ Writers /\ HomesHoldLatest

(* The slots are numbers, and each is of one of the pages.                 *)
LEMMA SlotsAndPages ==
  /\ ShSlots \subseteq Nat /\ \A k \in ShKeys : ShHash[k] \in ShSlots
  /\ \A s \in ShSlots : Page(s) \in ShPages
  BY SharedCacheAssumption DEF ShSlots, ShPages

(* An empty cache.                                                         *)
LEMMA ShInit == SharedCacheInit => ShInv
  <1>. SUFFICES ASSUME SharedCacheInit PROVE ShInv
    OBVIOUS
  <1>1. ShTypeOK
    BY DEF SharedCacheInit, ShTypeOK, SlotRec, EmptySlot, Writing
  <1>2. \A s \in ShSlots : slot[s].hash = 0 /\ slot[s].key = NoShKey
    BY DEF SharedCacheInit, EmptySlot
  <1>3. \A p \in ShProcs : ~Writing(p)
    BY DEF SharedCacheInit, Writing
  <1>4. \A k \in ShKeys : Home(k).key # k
    BY <1>2, SlotsAndPages, SharedCacheAssumption DEF Home
  <1>. QED
    BY <1>1, <1>2, <1>3, <1>4 DEF ShInv, HashIsPosition, Writers, HomesHoldLatest

(* What a search finds is at home.                                         *)
LEMMA ShInvHits == ShInv => SharedHitIsLatest
  <1>. SUFFICES ASSUME ShInv, NEW k \in ShKeys, pageLock[Page(ShHash[k])] = NoShKey,
                       ci_shared_cache_search(k) # NoShKey
                PROVE  LET got_ == ci_shared_cache_search(k) IN
                         \/ /\ got_ = shLatest[k].val /\ shNow - shLatest[k].time <= ShTTL
                            /\ got_ # Torn
                         \/ got_ = Torn /\ Page(ShHash[k]) \in diedWriting
    BY DEF SharedHitIsLatest
  <1>. DEFINE h == ShHash[k]
              hits == {pos \in Walked(k) : slot[pos].key = k /\ slot[pos].expires >= shNow}
  <1>1. h \in ShSlots /\ h \in Nat /\ NoShKey # k
    BY SlotsAndPages, SharedCacheAssumption
  <1>2. ASSUME NEW pos \in hits PROVE pos = h
    <2>1. pos \in ShSlots /\ pos \in Nat /\ pos >= h /\ slot[pos].key = k
      BY SlotsAndPages DEF Walked
    <2>2. slot[pos].hash = h
      <3>1. pos \in h .. pos
        BY <1>1, <2>1
      <3>. QED
        BY <3>1 DEF Walked
    <2>. QED
      BY <1>1, <2>1, <2>2 DEF ShInv, HashIsPosition
  <1>3. hits # {}
    BY DEF ci_shared_cache_search
  <1>4. hits = {h}
    BY <1>2, <1>3
  <1>5. slot[h].key = k /\ slot[h].expires >= shNow
    BY <1>4
  <1>6. ci_shared_cache_search(k) = slot[h].val
    <2>1. (CHOOSE pos \in hits : \A i \in hits : pos <= i) = h
      BY <1>1, <1>4
    <2>. QED
      BY <1>3, <2>1 DEF ci_shared_cache_search
  <1>7. ASSUME NEW p \in ShProcs, Writing(p), shOp[p].pos = h PROVE FALSE
    <2>1. pageLock[Page(h)] = p
      BY <1>7 DEF ShInv, Writers, WriterInv
    <2>. QED
      BY <2>1, SharedCacheAssumption
  <1>8. Stored(k)
    BY <1>5, <1>7 DEF ShInv, HomesHoldLatest, Home
  <1>9. shNow \in Nat /\ slot[h].expires \in Nat /\ ShTTL \in Nat
    BY <1>1, SharedCacheAssumption DEF ShInv, ShTypeOK, SlotRec
  <1>. QED
    BY <1>5, <1>6, <1>8, <1>9 DEF Stored, Home

(* Steps that write no slot and begin or end no write.                     *)
LEMMA NoWrite ==
  ASSUME ShInv, UNCHANGED <<slot, pageLock, shLatest, diedWriting>>, shNow' \in Nat,
         DOMAIN shOp' = ShProcs,
         \A p \in ShProcs :
           \/ shOp'[p] = shOp[p]
           \/ /\ ~Writing(p) /\ shOp'[p].pc # "writing"
              /\ shOp'[p].pc = "update" =>
                   shOp'[p].key \in ShKeys /\ shOp'[p].val \in ShValues /\ shOp'[p].time \in Nat
  PROVE  ShInv'
  <1>1. \A p \in ShProcs : Writing(p)' <=> Writing(p)
    BY DEF Writing
  <1>2. \A p \in ShProcs : Writing(p) => shOp'[p] = shOp[p]
    OBVIOUS
  <1>3. ShTypeOK'
    BY <1>1, <1>2 DEF ShInv, ShTypeOK
  <1>4. HashIsPosition'
    BY DEF ShInv, HashIsPosition
  <1>5. Writers'
    BY <1>1, <1>2 DEF ShInv, Writers, WriterInv, Home
  <1>6. HomesHoldLatest'
    BY <1>1, <1>2 DEF ShInv, HomesHoldLatest, Stored, Home
  <1>. QED
    BY <1>3, <1>4, <1>5, <1>6 DEF ShInv

(* Two children never write on one page.                                   *)
LEMMA OneWriter ==
  ASSUME ShInv, NEW p \in ShProcs, NEW q \in ShProcs, Writing(p), Writing(q),
         Page(shOp[p].pos) = Page(shOp[q].pos)
  PROVE  p = q
  BY DEF ShInv, Writers, WriterInv

(* A child begins to write.                                                *)
LEMMA BeginsWrite ==
  ASSUME ShInv, NEW p \in ShProcs, SharedUpdateWrites(p)
  PROVE  ShInv'
  <1>. DEFINE k == shOp[p].key
              h == ShHash[k]
  <1>1. /\ k \in ShKeys /\ shOp[p].val \in ShValues /\ shOp[p].time \in Nat /\ ~Writing(p)
        /\ shOp[p].pc = "update"
    BY DEF ShInv, ShTypeOK, SharedUpdateWrites, Writing
  <1>2. h \in ShSlots /\ Page(h) \in ShPages /\ h \in Nat
    BY <1>1, SlotsAndPages
  <1>3. PICK pos \in Target(shOp[p]) : \E key \in {k, slot[pos].key} :
          /\ slot' = [slot EXCEPT ![pos] = [hash |-> pos, expires |-> shOp[p].time + ShTTL,
                                            key |-> key, val |-> Torn]]
          /\ shOp' = [shOp EXCEPT ![p] = [pc |-> "writing", key |-> k, val |-> shOp[p].val,
                                          time |-> shOp[p].time, pos |-> pos]]
    BY DEF SharedUpdateWrites
  <1>4. PICK key \in {k, slot[pos].key} :
          /\ slot' = [slot EXCEPT ![pos] = [hash |-> pos, expires |-> shOp[p].time + ShTTL,
                                            key |-> key, val |-> Torn]]
          /\ shOp' = [shOp EXCEPT ![p] = [pc |-> "writing", key |-> k, val |-> shOp[p].val,
                                          time |-> shOp[p].time, pos |-> pos]]
    BY <1>3
  <1>5. /\ pageLock[Page(h)] = NoShKey /\ pageLock' = [pageLock EXCEPT ![Page(h)] = p]
        /\ UNCHANGED <<shNow, shLatest, diedWriting>>
    BY DEF SharedUpdateWrites
  <1>6. pos \in ShSlots /\ Page(pos) = Page(h) /\ pos \in Nat /\ pos >= h
    BY SlotsAndPages DEF Target
  <1>7. pos # h => Home(k).key # k
    <2>. SUFFICES ASSUME pos # h PROVE Home(k).key # k
      OBVIOUS
    <2>1. h \in h .. (pos - 1)
      BY <1>2, <1>6
    <2>2. ~CanUpdate(shOp[p], h)
      BY <2>1 DEF Target
    <2>. QED
      BY <2>2 DEF CanUpdate, Home
  <1>. HIDE DEF h
  <1>8. /\ slot'[pos] = [hash |-> pos, expires |-> shOp[p].time + ShTTL, key |-> key, val |-> Torn]
        /\ \A s \in ShSlots : s # pos => slot'[s] = slot[s]
        /\ slot \in [ShSlots -> SlotRec]
    BY <1>4, <1>6 DEF ShInv, ShTypeOK
  <1>9. /\ shOp'[p] = [pc |-> "writing", key |-> k, val |-> shOp[p].val, time |-> shOp[p].time,
                       pos |-> pos]
        /\ \A q \in ShProcs : q # p => shOp'[q] = shOp[q]
        /\ DOMAIN shOp' = ShProcs
    BY <1>4 DEF ShInv, ShTypeOK
  <1>10. Writing(p)' /\ \A q \in ShProcs : q # p => (Writing(q)' <=> Writing(q))
    BY <1>9 DEF Writing
  <1>11. ASSUME NEW q \in ShProcs, Writing(q)
         PROVE  shOp[q].pos \in ShSlots /\ Page(shOp[q].pos) # Page(h) /\ q # p
    BY <1>1, <1>5, <1>11, SharedCacheAssumption DEF ShInv, ShTypeOK, Writers, WriterInv
  <1>12. ShTypeOK'
    <2>1. key \in ShKeys \cup {NoShKey}
      BY <1>1, <1>6, <1>8 DEF SlotRec
    <2>2. slot' \in [ShSlots -> SlotRec]
      BY <1>1, <1>4, <1>6, <1>8, <2>1, SharedCacheAssumption DEF SlotRec
    <2>3. pageLock' \in [ShPages -> ShProcs \cup {NoShKey}]
      BY <1>5 DEF ShInv, ShTypeOK
    <2>4. \A q \in ShProcs :
            shOp'[q].pc \in {"update", "writing"} =>
              shOp'[q].key \in ShKeys /\ shOp'[q].val \in ShValues /\ shOp'[q].time \in Nat
      BY <1>1, <1>9 DEF ShInv, ShTypeOK
    <2>5. \A q \in ShProcs : Writing(q)' => shOp'[q].pos \in ShSlots
      BY <1>6, <1>9, <1>10 DEF ShInv, ShTypeOK
    <2>. QED
      BY <1>5, <1>9, <2>2, <2>3, <2>4, <2>5 DEF ShInv, ShTypeOK
  <1>13. HashIsPosition'
    BY <1>6, <1>8 DEF ShInv, HashIsPosition
  <1>14. Writers'
    <2>. SUFFICES ASSUME NEW q \in ShProcs, Writing(q)' PROVE WriterInv(q)'
      BY DEF Writers
    <2>1. CASE q = p
      <3>1. pageLock'[Page(h)] = p
        BY <1>2, <1>5 DEF ShInv, ShTypeOK
      <3>2. slot'[h].key = k => pos = h
        BY <1>2, <1>7, <1>8 DEF Home, h
      <3>. QED
        BY <1>6, <1>8, <1>9, <2>1, <3>1, <3>2 DEF WriterInv, Home, h
    <2>2. CASE q # p
      <3>. DEFINE o == shOp[q]
      <3>1. Writing(q) /\ shOp'[q] = o /\ WriterInv(q) /\ o.pos \in ShSlots /\ o.key \in ShKeys
        BY <1>9, <1>10, <2>2 DEF ShInv, ShTypeOK, Writers, Writing
      <3>2. Page(o.pos) # Page(h) /\ Page(ShHash[o.key]) # Page(h)
        BY <1>11, <3>1 DEF WriterInv
      <3>3. slot'[o.pos] = slot[o.pos] /\ slot'[ShHash[o.key]] = slot[ShHash[o.key]]
        BY <1>6, <1>8, <3>1, <3>2, SlotsAndPages
      <3>4. pageLock'[Page(ShHash[o.key])] = pageLock[Page(ShHash[o.key])]
        BY <1>5, <3>1, <3>2, SlotsAndPages DEF ShInv, ShTypeOK
      <3>. QED
        BY <3>1, <3>3, <3>4 DEF WriterInv, Home
    <2>. QED
      BY <2>1, <2>2
  <1>15. HomesHoldLatest'
    <2>. SUFFICES ASSUME NEW j \in ShKeys, Home(j)'.key = j
                  PROVE  Stored(j)' \/ \E q \in ShProcs : Writing(q)' /\ shOp'[q].pos = ShHash[j]
      BY DEF HomesHoldLatest
    <2>1. CASE ShHash[j] = pos
      BY <1>9, <1>10, <2>1
    <2>2. CASE ShHash[j] # pos
      <3>1. slot'[ShHash[j]] = slot[ShHash[j]]
        BY <1>8, <2>2, SlotsAndPages
      <3>2. Stored(j) \/ \E q \in ShProcs : Writing(q) /\ shOp[q].pos = ShHash[j]
        BY <3>1 DEF ShInv, HomesHoldLatest, Home
      <3>. QED
        BY <1>5, <1>9, <1>10, <1>11, <3>1, <3>2 DEF Stored, Home
    <2>. QED
      BY <2>1, <2>2
  <1>. QED
    BY <1>12, <1>13, <1>14, <1>15 DEF ShInv

(* ... and ends: its key, if it is at home, is there with the new value.   *)
LEMMA EndsWrite ==
  ASSUME ShInv, NEW p \in ShProcs, SharedUpdateDone(p)
  PROVE  ShInv'
  <1>. DEFINE o == shOp[p]
              k == o.key
              h == ShHash[k]
  <1>1. /\ Writing(p) /\ k \in ShKeys /\ o.val \in ShValues /\ o.time \in Nat
        /\ o.pos \in ShSlots /\ WriterInv(p)
    BY DEF ShInv, ShTypeOK, SharedUpdateDone, Writing, Writers
  <1>2. h \in ShSlots /\ Page(h) \in ShPages
    BY <1>1, SlotsAndPages
  <1>3. /\ slot' = [slot EXCEPT ![o.pos] = [slot[o.pos] EXCEPT !.key = k, !.val = o.val]]
        /\ pageLock' = [pageLock EXCEPT ![Page(h)] = NoShKey]
        /\ shLatest' = [shLatest EXCEPT ![k] = [val |-> o.val, time |-> o.time]]
        /\ shOp' = [shOp EXCEPT ![p] = Attached] /\ UNCHANGED <<shNow, diedWriting>>
    BY <1>1 DEF SharedUpdateDone, ShInv, ShTypeOK, SlotRec
  <1>4. /\ slot \in [ShSlots -> SlotRec] /\ slot[o.pos] \in SlotRec
        /\ slot'[o.pos] = [slot[o.pos] EXCEPT !.key = k, !.val = o.val]
        /\ \A s \in ShSlots : s # o.pos => slot'[s] = slot[s]
    BY <1>1, <1>3 DEF ShInv, ShTypeOK
  <1>5. /\ slot'[o.pos].hash = o.pos /\ slot'[o.pos].expires = o.time + ShTTL
        /\ slot'[o.pos].key = k /\ slot'[o.pos].val = o.val /\ slot'[o.pos] \in SlotRec
    BY <1>1, <1>4 DEF WriterInv, SlotRec
  <1>6. /\ \A q \in ShProcs : q # p => shOp'[q] = shOp[q]
        /\ DOMAIN shOp' = ShProcs /\ shOp'[p].pc = "attached"
    BY <1>3 DEF ShInv, ShTypeOK, Attached
  <1>7. ~Writing(p)' /\ \A q \in ShProcs : q # p => (Writing(q)' <=> Writing(q))
    BY <1>6 DEF Writing
  <1>8. Page(o.pos) = Page(h) /\ pageLock[Page(h)] = p /\ (slot[h].key = k => o.pos = h)
    BY <1>1 DEF WriterInv, Home
  <1>9. ShTypeOK'
    <2>1. slot' \in [ShSlots -> SlotRec]
      BY <1>1, <1>3, <1>4, <1>5
    <2>2. pageLock' \in [ShPages -> ShProcs \cup {NoShKey}]
      BY <1>3 DEF ShInv, ShTypeOK
    <2>3. \A q \in ShProcs :
            shOp'[q].pc \in {"update", "writing"} =>
              shOp'[q].key \in ShKeys /\ shOp'[q].val \in ShValues /\ shOp'[q].time \in Nat
      BY <1>6 DEF ShInv, ShTypeOK
    <2>4. \A q \in ShProcs : Writing(q)' => shOp'[q].pos \in ShSlots
      BY <1>6, <1>7 DEF ShInv, ShTypeOK
    <2>5. DOMAIN shLatest' = ShKeys
      BY <1>3 DEF ShInv, ShTypeOK
    <2>. QED
      BY <1>3, <1>6, <2>1, <2>2, <2>3, <2>4, <2>5 DEF ShInv, ShTypeOK
  <1>10. HashIsPosition'
    <2>. SUFFICES ASSUME NEW s \in ShSlots
                  PROVE  /\ slot'[s].hash \in {0, s}
                         /\ slot'[s].hash = 0 /\ s # 0 => slot'[s].key = NoShKey
      BY DEF HashIsPosition
    <2>. QED
      BY <1>4, <1>5 DEF ShInv, HashIsPosition
  <1>11. Writers'
    <2>. SUFFICES ASSUME NEW q \in ShProcs, Writing(q)' PROVE WriterInv(q)'
      BY DEF Writers
    <2>. DEFINE u == shOp[q]
    <2>1. /\ q # p /\ Writing(q) /\ shOp'[q] = u /\ WriterInv(q) /\ u.pos \in ShSlots
          /\ u.key \in ShKeys
      BY <1>6, <1>7 DEF ShInv, ShTypeOK, Writers, Writing
    <2>2. Page(u.pos) # Page(o.pos)
      BY <1>1, <2>1, OneWriter
    <2>3. Page(ShHash[u.key]) = Page(u.pos)
      BY <2>1 DEF WriterInv
    <2>4. slot'[u.pos] = slot[u.pos] /\ slot'[ShHash[u.key]] = slot[ShHash[u.key]]
      BY <1>4, <2>1, <2>2, <2>3, SlotsAndPages
    <2>5. pageLock'[Page(ShHash[u.key])] = pageLock[Page(ShHash[u.key])]
      BY <1>3, <1>8, <2>1, <2>2, <2>3, SlotsAndPages DEF ShInv, ShTypeOK
    <2>. QED
      BY <2>1, <2>4, <2>5 DEF WriterInv, Home
  <1>12. HomesHoldLatest'
    <2>. SUFFICES ASSUME NEW j \in ShKeys, Home(j)'.key = j
                  PROVE  Stored(j)' \/ \E q \in ShProcs : Writing(q)' /\ shOp'[q].pos = ShHash[j]
      BY DEF HomesHoldLatest
    <2>1. CASE ShHash[j] = o.pos
      <3>1. j = k
        BY <1>5, <2>1 DEF Home
      <3>2. shLatest'[k].val = o.val /\ shLatest'[k].time = o.time
        BY <1>1, <1>3 DEF ShInv, ShTypeOK
      <3>. QED
        BY <1>1, <1>5, <2>1, <3>1, <3>2, SharedCacheAssumption DEF Stored, Home
    <2>2. CASE ShHash[j] # o.pos
      <3>1. slot'[ShHash[j]] = slot[ShHash[j]] /\ Home(j).key = j
        BY <1>4, <2>2, SlotsAndPages DEF Home
      <3>2. j # k
        BY <1>8, <2>2, <3>1 DEF Home
      <3>3. shLatest'[j] = shLatest[j]
        BY <1>3, <3>2 DEF ShInv, ShTypeOK
      <3>4. Stored(j) \/ \E q \in ShProcs : Writing(q) /\ shOp[q].pos = ShHash[j]
        BY <3>1 DEF ShInv, HomesHoldLatest
      <3>5. CASE Stored(j)
        BY <1>3, <3>1, <3>3, <3>5 DEF Stored, Home
      <3>6. CASE \E q \in ShProcs : Writing(q) /\ shOp[q].pos = ShHash[j]
        BY <1>6, <1>7, <2>2, <3>6
      <3>. QED
        BY <3>4, <3>5, <3>6
    <2>. QED
      BY <2>1, <2>2
  <1>. QED
    BY <1>9, <1>10, <1>11, <1>12 DEF ShInv

(* A child dies, perhaps while it writes: its slot has no value.           *)
LEMMA WriterDies ==
  ASSUME ShInv, NEW p \in ShProcs, CacheChildDies(p)
  PROVE  ShInv'
  <1>1. /\ shOp' = [shOp EXCEPT ![p] = [pc |-> "dead"]]
        /\ pageLock' = [g \in ShPages |-> IF pageLock[g] = p THEN NoShKey ELSE pageLock[g]]
        /\ diedWriting' = diedWriting \union {g \in ShPages : pageLock[g] = p}
        /\ UNCHANGED <<shNow, slot, shLatest>>
    BY DEF CacheChildDies
  <1>2. /\ \A q \in ShProcs : q # p => shOp'[q] = shOp[q]
        /\ DOMAIN shOp' = ShProcs /\ shOp'[p].pc = "dead"
    BY <1>1 DEF ShInv, ShTypeOK
  <1>3. ~Writing(p)' /\ \A q \in ShProcs : q # p => (Writing(q)' <=> Writing(q))
    BY <1>2 DEF Writing
  <1>4. ShTypeOK'
    <2>1. pageLock' \in [ShPages -> ShProcs \cup {NoShKey}]
      BY <1>1 DEF ShInv, ShTypeOK
    <2>2. \A q \in ShProcs :
            shOp'[q].pc \in {"update", "writing"} =>
              shOp'[q].key \in ShKeys /\ shOp'[q].val \in ShValues /\ shOp'[q].time \in Nat
      BY <1>2 DEF ShInv, ShTypeOK
    <2>3. \A q \in ShProcs : Writing(q)' => shOp'[q].pos \in ShSlots
      BY <1>2, <1>3 DEF ShInv, ShTypeOK
    <2>. QED
      BY <1>1, <1>2, <2>1, <2>2, <2>3 DEF ShInv, ShTypeOK
  <1>5. HashIsPosition'
    BY <1>1 DEF ShInv, HashIsPosition
  <1>6. Writers'
    <2>. SUFFICES ASSUME NEW q \in ShProcs, Writing(q)' PROVE WriterInv(q)'
      BY DEF Writers
    <2>1. q # p /\ shOp'[q] = shOp[q] /\ WriterInv(q) /\ shOp[q].key \in ShKeys
      BY <1>2, <1>3 DEF ShInv, ShTypeOK, Writers, Writing
    <2>2. pageLock'[Page(ShHash[shOp[q].key])] = q
      BY <1>1, <2>1, SlotsAndPages DEF WriterInv
    <2>. QED
      BY <1>1, <2>1, <2>2 DEF WriterInv, Home
  <1>7. HomesHoldLatest'
    <2>. SUFFICES ASSUME NEW j \in ShKeys, Home(j)'.key = j
                  PROVE  Stored(j)' \/ \E q \in ShProcs : Writing(q)' /\ shOp'[q].pos = ShHash[j]
      BY DEF HomesHoldLatest
    <2>1. Stored(j) \/ \E q \in ShProcs : Writing(q) /\ shOp[q].pos = ShHash[j]
      BY <1>1 DEF ShInv, HomesHoldLatest, Home
    <2>2. CASE Stored(j)
      BY <1>1, <2>2 DEF Stored, Home
    <2>3. CASE Writing(p) /\ shOp[p].pos = ShHash[j]
      <3>1. slot[ShHash[j]].val = Torn /\ pageLock[Page(ShHash[j])] = p
        BY <2>3 DEF ShInv, Writers, WriterInv
      <3>2. Page(ShHash[j]) \in diedWriting'
        BY <1>1, <3>1, SlotsAndPages
      <3>. QED
        BY <1>1, <3>1, <3>2 DEF Stored, Home
    <2>4. CASE \E q \in ShProcs : q # p /\ Writing(q) /\ shOp[q].pos = ShHash[j]
      BY <1>2, <1>3, <2>4
    <2>. QED
      BY <2>1, <2>2, <2>3, <2>4
  <1>. QED
    BY <1>4, <1>5, <1>6, <1>7 DEF ShInv

(* Every step of the processes keeps the slots right.                      *)
LEMMA ShStep == ShInv /\ [SharedCacheNext]_shVars => ShInv'
  <1>. SUFFICES ASSUME ShInv, [SharedCacheNext]_shVars PROVE ShInv'
    OBVIOUS
  <1>0. shNow \in Nat /\ DOMAIN shOp = ShProcs
    BY DEF ShInv, ShTypeOK
  <1>1. ASSUME NEW p \in ShProcs, SharedUpdateStart(p) PROVE ShInv'
    <2>1. PICK k \in ShKeys, v \in ShValues :
            /\ shOp[p].pc = "attached"
            /\ shOp' = [shOp EXCEPT ![p] = [pc |-> "update", key |-> k, val |-> v, time |-> shNow]]
            /\ UNCHANGED <<shNow, slot, pageLock, shLatest, diedWriting>>
      BY <1>1 DEF SharedUpdateStart
    <2>2. shOp'[p] = [pc |-> "update", key |-> k, val |-> v, time |-> shNow]
          /\ \A q \in ShProcs : q # p => shOp'[q] = shOp[q]
      BY <1>0, <2>1
    <2>. QED
      BY <1>0, <2>1, <2>2, NoWrite DEF Writing
  <1>2. ASSUME NEW p \in ShProcs,
               SharedUpdateFull(p) \/ command_attach_shared_mem(p) \/ ChildDestroysCache(p)
        PROVE  ShInv'
    <2>1. PICK r : /\ r.pc \in {"attached", "late", "gone"} /\ shOp' = [shOp EXCEPT ![p] = r]
                   /\ UNCHANGED <<shNow, slot, pageLock, shLatest, diedWriting>>
                   /\ shOp[p].pc # "writing"
      BY <1>2 DEF SharedUpdateFull, command_attach_shared_mem, ChildDestroysCache,
                  ci_shared_cache_destroy, Attached
    <2>2. shOp'[p] = r /\ (\A q \in ShProcs : q # p => shOp'[q] = shOp[q]) /\ DOMAIN shOp' = ShProcs
      BY <1>0, <2>1
    <2>. QED
      BY <1>0, <2>1, <2>2, NoWrite DEF Writing
  <1>3. CASE FatherDestroysCache \/ SharedCacheTick \/ UNCHANGED shVars
    <2>1. UNCHANGED <<slot, pageLock, shLatest, diedWriting, shOp>> /\ shNow' \in Nat
      BY <1>0, <1>3 DEF FatherDestroysCache, ci_shared_cache_destroy, SharedCacheTick, shVars
    <2>. QED
      BY <1>0, <2>1, NoWrite
  <1>. QED
    BY <1>1, <1>2, <1>3, BeginsWrite, EndsWrite, WriterDies DEF SharedCacheNext

(* A search under the page's mutex finds, for any keys, hashes, page sizes *)
(* and processes, the value that was stored last for its key and is no     *)
(* older than the ttl, however updates of other keys and processes, and    *)
(* their deaths, come in between; only where a child has died while it     *)
(* wrote can it find bytes that nobody stored.                             *)
THEOREM SharedHitsAreLatest == SharedCacheSpec => []SharedHitIsLatest
  <1>1. SharedCacheInit => ShInv
    BY ShInit
  <1>2. ShInv /\ [SharedCacheNext]_shVars => ShInv'
    BY ShStep
  <1>3. ShInv => SharedHitIsLatest
    BY ShInvHits
  <1>. QED
    BY <1>1, <1>2, <1>3, PTL DEF SharedCacheSpec

(***************************************************************************)
(* Commands: the queue of scheduled requests                               *)
(***************************************************************************)
(* No node is twice in a list.                                             *)
NodesDiffer(l) == \A i, j \in DOMAIN l : l[i] = l[j] => i = j

(* A node put before a list.                                               *)
LEMMA PushedNodes ==
  ASSUME NEW l \in Seq(QNodes), NEW n \in QNodes, n \notin Nodes(l), NodesDiffer(l)
  PROVE  /\ <<n>> \o l \in Seq(QNodes) /\ NodesDiffer(<<n>> \o l)
         /\ Nodes(<<n>> \o l) = Nodes(l) \cup {n}
  <1>. DEFINE m == <<n>> \o l
  <1>1. /\ m \in Seq(QNodes) /\ Len(m) = Len(l) + 1 /\ m[1] = n
        /\ \A i \in 1 .. Len(l) : m[i + 1] = l[i]
    BY OneElement, ConcatProperties
  <1>2. DOMAIN m = 1 .. Len(l) + 1 /\ DOMAIN l = 1 .. Len(l) /\ Len(l) \in Nat
    BY <1>1, LenProperties
  <1>. HIDE DEF m
  <1>3. \A i \in DOMAIN m : i = 1 \/ (i - 1 \in DOMAIN l /\ m[i] = l[i - 1])
    <2>. TAKE i \in DOMAIN m
    <2>1. CASE i # 1
      <3>1. i - 1 \in 1 .. Len(l) /\ (i - 1) + 1 = i
        BY <1>2, <2>1
      <3>. QED
        BY <1>1, <1>2, <3>1
    <2>. QED
      BY <2>1
  <1>4. \A i \in DOMAIN l : i + 1 \in DOMAIN m /\ m[i + 1] = l[i] /\ l[i] # n
    BY <1>1, <1>2 DEF Nodes
  <1>5. Nodes(m) = Nodes(l) \cup {n}
    <2>1. n \in Nodes(m)
      BY <1>1, <1>2 DEF Nodes
    <2>2. Nodes(l) \subseteq Nodes(m)
      BY <1>4 DEF Nodes
    <2>3. ASSUME NEW i \in DOMAIN m PROVE m[i] \in Nodes(l) \cup {n}
      BY <1>1, <1>3 DEF Nodes
    <2>. QED
      BY <2>1, <2>2, <2>3 DEF Nodes
  <1>6. NodesDiffer(m)
    <2>. SUFFICES ASSUME NEW i \in DOMAIN m, NEW j \in DOMAIN m, m[i] = m[j] PROVE i = j
      BY DEF NodesDiffer
    <2>1. CASE i = 1 \/ j = 1
      BY <1>1, <1>3, <1>4, <2>1
    <2>2. CASE i # 1 /\ j # 1
      <3>1. i - 1 = j - 1
        BY <1>3, <2>2 DEF NodesDiffer
      <3>. QED
        BY <1>2, <3>1
    <2>. QED
      BY <2>1, <2>2
  <1>. QED
    BY <1>1, <1>5, <1>6 DEF m

(* The first node taken off a list.                                        *)
LEMMA PoppedNodes ==
  ASSUME NEW l \in Seq(QNodes), l # <<>>, NodesDiffer(l)
  PROVE  /\ l[1] \in Nodes(l) /\ l[1] \in QNodes
         /\ Tail(l) \in Seq(QNodes) /\ NodesDiffer(Tail(l)) /\ Nodes(Tail(l)) = Nodes(l) \ {l[1]}
  <1>. DEFINE m == Tail(l)
  <1>1. /\ m \in Seq(QNodes) /\ Len(m) = Len(l) - 1 /\ Len(l) \in Nat \ {0}
        /\ \A i \in 1 .. Len(m) : m[i] = l[i + 1]
    BY HeadTailProperties, EmptySeq
  <1>2. DOMAIN m = 1 .. Len(l) - 1 /\ DOMAIN l = 1 .. Len(l)
    BY <1>1, LenProperties
  <1>. HIDE DEF m
  <1>3. \A i \in DOMAIN m : i + 1 \in DOMAIN l /\ m[i] = l[i + 1] /\ i + 1 # 1
    BY <1>1, <1>2
  <1>4. \A i \in DOMAIN l : i # 1 => i - 1 \in DOMAIN m /\ m[i - 1] = l[i]
    <2>. SUFFICES ASSUME NEW i \in DOMAIN l, i # 1 PROVE i - 1 \in DOMAIN m /\ m[i - 1] = l[i]
      OBVIOUS
    <2>1. i - 1 \in 1 .. Len(m) /\ (i - 1) + 1 = i
      BY <1>1, <1>2
    <2>. QED
      BY <1>1, <1>2, <2>1
  <1>5. 1 \in DOMAIN l /\ l[1] \in QNodes
    BY <1>1, <1>2, ElementOfSeq
  <1>6. Nodes(m) = Nodes(l) \ {l[1]}
    <2>1. \A i \in DOMAIN l : l[i] = l[1] => i = 1
      BY <1>5 DEF NodesDiffer
    <2>. QED
      BY <1>3, <1>4, <1>5, <2>1 DEF Nodes
  <1>7. NodesDiffer(m)
    <2>. SUFFICES ASSUME NEW i \in DOMAIN m, NEW j \in DOMAIN m, m[i] = m[j] PROVE i = j
      BY DEF NodesDiffer
    <2>1. i + 1 = j + 1
      BY <1>3 DEF NodesDiffer
    <2>. QED
      BY <1>2, <2>1
  <1>. QED
    BY <1>1, <1>5, <1>6, <1>7 DEF m, Nodes

(* A node taken out of a list.                                             *)
LEMMA RemovedNodes ==
  ASSUME NEW l \in Seq(QNodes), NEW k \in DOMAIN l, NodesDiffer(l)
  PROVE  /\ l[k] \in Nodes(l) /\ l[k] \in QNodes
         /\ Without(l, k) \in Seq(QNodes) /\ NodesDiffer(Without(l, k))
         /\ Nodes(Without(l, k)) = Nodes(l) \ {l[k]}
  <1>. DEFINE m == Without(l, k)
              old(i) == IF i < k THEN i ELSE i + 1
  <1>1. DOMAIN l = 1 .. Len(l) /\ Len(l) \in Nat \ {0} /\ \A i \in DOMAIN l : l[i] \in QNodes
    BY LenProperties, ElementOfSeq
  <1>2. DOMAIN m = 1 .. Len(l) - 1 /\ \A i \in DOMAIN m : m[i] = l[old(i)]
    BY DEF Without
  <1>3. \A i \in DOMAIN m : old(i) \in DOMAIN l /\ old(i) # k
    BY <1>1, <1>2
  <1>4. \A i, j \in DOMAIN m : old(i) = old(j) => i = j
    BY <1>1, <1>2
  <1>5. \A j \in DOMAIN l : j # k => \E i \in DOMAIN m : old(i) = j
    <2>. SUFFICES ASSUME NEW j \in DOMAIN l, j # k PROVE \E i \in DOMAIN m : old(i) = j
      OBVIOUS
    <2>1. CASE j < k
      BY <1>1, <1>2, <2>1
    <2>2. CASE j > k
      <3>1. j - 1 \in DOMAIN m /\ old(j - 1) = j
        BY <1>1, <1>2, <2>2
      <3>. QED
        BY <3>1
    <2>. QED
      BY <1>1, <2>1, <2>2
  <1>6. m \in Seq(QNodes)
    <2>1. m = [i \in 1 .. Len(l) - 1 |-> m[i]] /\ \A i \in 1 .. Len(l) - 1 : m[i] \in QNodes
      BY <1>1, <1>2, <1>3 DEF Without
    <2>2. Len(l) - 1 \in Nat
      BY <1>1
    <2>. QED
      BY <2>1, <2>2, IsASeq
  <1>. HIDE DEF m, old
  <1>7. Nodes(m) = Nodes(l) \ {l[k]}
    <2>1. \A i \in DOMAIN l : l[i] = l[k] => i = k
      BY DEF NodesDiffer
    <2>. QED
      BY <1>2, <1>3, <1>5, <2>1 DEF Nodes
  <1>8. NodesDiffer(m)
    BY <1>2, <1>3, <1>4 DEF NodesDiffer
  <1>. QED
    BY <1>1, <1>6, <1>7, <1>8 DEF m, Nodes

(* The node behind a node of the queue is another one of the queue.        *)
LEMMA NextInQueue ==
  ASSUME cmdQueue \in Seq(QNodes), NodesDiffer(cmdQueue), NEW n \in Nodes(cmdQueue)
  PROVE  NextOf(n) \in (Nodes(cmdQueue) \ {n}) \cup {NoNode}
  <1>1. DOMAIN cmdQueue = 1 .. Len(cmdQueue) /\ Len(cmdQueue) \in Nat
    BY LenProperties
  <1>2. \E i \in DOMAIN cmdQueue : cmdQueue[i] = n
    BY DEF Nodes
  <1>. DEFINE i == CHOOSE i \in DOMAIN cmdQueue : cmdQueue[i] = n
  <1>3. i \in DOMAIN cmdQueue /\ cmdQueue[i] = n
    BY <1>2
  <1>4. NextOf(n) = IF i = Len(cmdQueue) THEN NoNode ELSE cmdQueue[i + 1]
    BY DEF NextOf
  <1>. HIDE DEF i
  <1>5. CASE i # Len(cmdQueue)
    <2>1. i + 1 \in DOMAIN cmdQueue /\ i + 1 # i
      BY <1>1, <1>3, <1>5
    <2>2. cmdQueue[i + 1] # n
      BY <1>3, <2>1 DEF NodesDiffer
    <2>. QED
      BY <1>4, <1>5, <2>1, <2>2 DEF Nodes
  <1>. QED
    BY <1>4, <1>5

(* ci_list_remove finds an entry that is in the queue.                     *)
LEMMA FindsEqual ==
  ASSUME cmdQueue \in Seq(QNodes), NEW n \in Nodes(cmdQueue)
  PROVE  FirstEqual(sched[n]) \in DOMAIN cmdQueue /\ sched[cmdQueue[FirstEqual(sched[n])]] = sched[n]
  <1>. DEFINE T == {k \in DOMAIN cmdQueue : sched[cmdQueue[k]] = sched[n]}
  <1>1. DOMAIN cmdQueue = 1 .. Len(cmdQueue) /\ Len(cmdQueue) \in Nat
    BY LenProperties
  <1>2. T \subseteq Nat /\ T # {}
    BY <1>1 DEF Nodes
  <1>3. PICK k \in T : \A j \in T : k <= j
    BY <1>2, LeastOfNats
  <1>4. \A j \in 1 .. k - 1 : sched[cmdQueue[j]] # sched[n]
    BY <1>1, <1>3
  <1>5. \E i \in DOMAIN cmdQueue : /\ sched[cmdQueue[i]] = sched[n]
                                  /\ \A j \in 1 .. i - 1 : sched[cmdQueue[j]] # sched[n]
    BY <1>4
  <1>. QED
    BY <1>5 DEF FirstEqual

(* What the scheduler keeps: its types, ...                                *)
CmdTypeOK ==
  /\ cmdQueue \in Seq(QNodes) /\ trash \in Seq(QNodes) /\ usedNodes \in Nat
  /\ sched \in [QNodes -> Requests \cup {NoCmd}]
  /\ caller \in [CallerThreads -> [req : Requests \cup {NoCmd}, at : QNodes \cup {NoNode}]]
  /\ loop \in [pc : {"idle", "visit", "action"}, cursor : QNodes \cup {NoNode},
               it : QNodes \cup {NoNode}, tm : Nat]
  /\ now \in Nat /\ pushed \in [Requests -> Nat] /\ ran \in [Requests -> Nat]

(* ... that a node is in one list, once, and was allocated, ...            *)
NodesOnce ==
  /\ NodesDiffer(cmdQueue) /\ NodesDiffer(trash) /\ Nodes(cmdQueue) \cap Nodes(trash) = {}
  /\ Nodes(cmdQueue) \cup Nodes(trash) \subseteq 1 .. usedNodes
  /\ \A n \in Nodes(cmdQueue) : sched[n] \in Requests

(* ... and that the loop stays in the queue, whatever is pushed and        *)
(* removed while it walks.                                                 *)
LoopInQueue ==
  /\ loop.cursor \in Nodes(cmdQueue) \cup {NoNode}
  /\ loop.pc = "action" => loop.it \in Nodes(cmdQueue)
  /\ loop.pc = "idle" => loop.cursor = NoNode

(* A search without the lock may get from the queue into the trash, but    *)
(* not out of the two.                                                     *)
Linked == Nodes(cmdQueue) \cup Nodes(trash) \cup {NoNode}
SearchesLinked == \A t \in CallerThreads : caller[t].at \in Linked

CmdInv == CmdTypeOK /\ NodesOnce /\ LoopInQueue /\ SearchesLinked

(* The nodes of a list over QNodes, which are finitely many.               *)
LEMMA NodesFinite ==
  ASSUME NEW l \in Seq(QNodes)
  PROVE  Nodes(l) \subseteq QNodes /\ IsFiniteSet(Nodes(l))
  <1>1. Nodes(l) \subseteq QNodes
    <2>1. \A i \in DOMAIN l : l[i] \in QNodes
      BY LenProperties, ElementOfSeq
    <2>. QED
      BY <2>1 DEF Nodes
  <1>2. IsFiniteSet(QNodes)
    BY CommandsAssumption, FS_Interval DEF QNodes
  <1>. QED
    BY <1>1, <1>2, FS_Subset

(* The entries of a request, and whether it is being executed.             *)
Waiting(r) == {n \in Nodes(cmdQueue) : sched[n] = r}
Running(r) == IF loop.pc = "action" /\ sched[loop.it] = r THEN 1 ELSE 0
Balanced(r) == ran[r] + Cardinality(Waiting(r)) - Running(r) = pushed[r]

(* The property is that every request is balanced.                         *)
LEMMA RunOnceIsBalance == RequestsRunOnce <=> \A r \in Requests : Balanced(r)
  BY DEF RequestsRunOnce, Balanced, Waiting, Running

(* Its entries can be counted.                                             *)
LEMMA WaitingCounted ==
  ASSUME CmdTypeOK, NEW r
  PROVE  IsFiniteSet(Waiting(r)) /\ Cardinality(Waiting(r)) \in Nat
  <1>1. IsFiniteSet(Nodes(cmdQueue)) /\ Waiting(r) \subseteq Nodes(cmdQueue)
    BY NodesFinite DEF CmdTypeOK, Waiting
  <1>. QED
    BY <1>1, FS_Subset, FS_CardinalityType

(* A step that leaves the lists and the loop alone.                        *)
LEMMA QueueSame ==
  ASSUME CmdInv, UNCHANGED <<cmdQueue, trash, sched, usedNodes>>, loop' = loop
  PROVE  NodesOnce' /\ LoopInQueue' /\ (caller' = caller => SearchesLinked')
  BY DEF CmdInv, NodesOnce, LoopInQueue, NodesDiffer, Nodes, SearchesLinked, Linked

(* A step that counts nothing.                                             *)
LEMMA CountsSame ==
  ASSUME RequestsRunOnce, UNCHANGED <<cmdQueue, sched, loop, pushed, ran>>
  PROVE  RequestsRunOnce'
  BY DEF RequestsRunOnce, Nodes

(* In the beginning there is no request.                                   *)
LEMMA CmdStart == CommandsInit => CmdInv /\ RequestsRunOnce
  <1>. SUFFICES ASSUME CommandsInit PROVE CmdInv /\ RequestsRunOnce
    OBVIOUS
  <1>1. Nodes(cmdQueue) = {} /\ Nodes(trash) = {} /\ NodesDiffer(cmdQueue) /\ NodesDiffer(trash)
    BY DEF CommandsInit, Nodes, NodesDiffer
  <1>2. CmdTypeOK
    BY DEF CommandsInit, CmdTypeOK, LoopIdle, NoRequest, None
  <1>3. NodesOnce
    BY <1>1 DEF NodesOnce
  <1>4. LoopInQueue
    BY DEF CommandsInit, LoopInQueue, LoopIdle
  <1>5. SearchesLinked
    BY DEF CommandsInit, SearchesLinked, Linked, NoRequest
  <1>6. ASSUME NEW r \in Requests PROVE Balanced(r)
    <2>1. Waiting(r) = {} /\ Running(r) = 0 /\ ran[r] = 0 /\ pushed[r] = 0
      BY <1>1 DEF CommandsInit, Waiting, Running, LoopIdle, None
    <2>2. Cardinality({}) = 0
      BY FS_EmptySet
    <2>. QED
      BY <2>1, <2>2 DEF Balanced
  <1>. QED
    BY <1>2, <1>3, <1>4, <1>5, <1>6, RunOnceIsBalance DEF CmdInv

(* A command is registered.                                                *)
LEMMA CmdRegister ==
  ASSUME CmdInv, RequestsRunOnce, NEW n \in CmdNames, NEW type \in CmdTypes, register_command(n, type)
  PROVE  CmdInv' /\ RequestsRunOnce'
  <1>1. UNCHANGED <<queueVars, now, caller, loop, pushed, ran>>
    BY DEF register_command
  <1>2. CmdTypeOK'
    BY <1>1 DEF CmdInv, CmdTypeOK, queueVars
  <1>. QED
    BY <1>1, <1>2, QueueSame, CountsSame DEF CmdInv, queueVars

(* Time goes on.                                                           *)
LEMMA CmdTime ==
  ASSUME CmdInv, RequestsRunOnce, CmdTick
  PROVE  CmdInv' /\ RequestsRunOnce'
  <1>1. UNCHANGED <<queueVars, caller, loop, pushed, ran>> /\ now' = now + 1
    BY DEF CmdTick
  <1>2. CmdTypeOK'
    BY <1>1 DEF CmdInv, CmdTypeOK, queueVars
  <1>. QED
    BY <1>1, <1>2, QueueSame, CountsSame DEF CmdInv, queueVars

(* A reconfiguration forgets the queue and what was counted.               *)
LEMMA CmdReset ==
  ASSUME CmdInv, RequestsRunOnce, commands_reset
  PROVE  CmdInv' /\ RequestsRunOnce'
  <1>1. /\ cmdQueue' = <<>> /\ trash' = <<>> /\ usedNodes' = 0 /\ sched' = [n \in QNodes |-> NoCmd]
        /\ pushed' = None /\ ran' = None /\ loop' = loop /\ now' = now /\ caller' = caller
        /\ loop.pc = "idle" /\ \A t \in CallerThreads : caller[t] = NoRequest
    BY DEF commands_reset
  <1>2. CmdTypeOK'
    BY <1>1 DEF CmdInv, CmdTypeOK, None
  <1>3. NodesOnce'
    BY <1>1 DEF NodesOnce, Nodes, NodesDiffer
  <1>4. LoopInQueue'
    BY <1>1 DEF CmdInv, LoopInQueue
  <1>5. ASSUME NEW r \in Requests PROVE Balanced(r)'
    <2>1. Waiting(r)' = {} /\ Running(r)' = 0 /\ ran'[r] = 0 /\ pushed'[r] = 0
      BY <1>1 DEF Waiting, Running, None, Nodes
    <2>2. Cardinality({}) = 0
      BY FS_EmptySet
    <2>. QED
      BY <2>1, <2>2 DEF Balanced
  <1>6. RequestsRunOnce'
    BY <1>5 DEF RequestsRunOnce, Balanced, Waiting, Running
  <1>7. SearchesLinked'
    BY <1>1 DEF SearchesLinked, Linked, NoRequest
  <1>. QED
    BY <1>2, <1>3, <1>4, <1>6, <1>7 DEF CmdInv

(* A thread begins to search.                                              *)
LEMMA CmdSchedule ==
  ASSUME CmdInv, RequestsRunOnce, NEW t \in CallerThreads, NEW r \in Requests, Schedule(t, r)
  PROVE  CmdInv' /\ RequestsRunOnce'
  <1>1. UNCHANGED <<queueVars, now, loop, pushed, ran>>
    BY DEF Schedule
  <1>2. First(cmdQueue) \in Linked /\ Linked \subseteq QNodes \cup {NoNode}
    <2>1. CASE cmdQueue # <<>>
      BY <2>1, PoppedNodes, NodesFinite DEF CmdInv, CmdTypeOK, NodesOnce, First, Linked
    <2>. QED
      BY <2>1, NodesFinite DEF First, Linked, CmdInv, CmdTypeOK
  <1>3. caller' \in [CallerThreads -> [req : Requests \cup {NoCmd}, at : QNodes \cup {NoNode}]]
    BY <1>2 DEF Schedule, CmdInv, CmdTypeOK
  <1>4. CmdTypeOK'
    BY <1>1, <1>3 DEF CmdInv, CmdTypeOK, queueVars
  <1>5. SearchesLinked'
    <2>1. Linked' = Linked
      BY <1>1 DEF Linked, queueVars, Nodes
    <2>. QED
      BY <1>2, <2>1 DEF Schedule, CmdInv, CmdTypeOK, SearchesLinked
  <1>. QED
    BY <1>1, <1>4, <1>5, QueueSame, CountsSame DEF CmdInv, queueVars

(* The node behind a node of the two lists.                                *)
LEMMA NextLinked ==
  ASSUME CmdInv, NEW n \in Linked, n # NoNode
  PROVE  NextOf(n) \in Linked
  <1>. DEFINE l == IF n \in Nodes(cmdQueue) THEN cmdQueue ELSE trash
              i == CHOOSE i \in DOMAIN l : l[i] = n
  <1>1. l \in Seq(QNodes) /\ n \in Nodes(l) /\ Nodes(l) \subseteq Linked /\ NoNode \in Linked
    BY DEF CmdInv, CmdTypeOK, Linked
  <1>2. NextOf(n) = IF i = Len(l) THEN NoNode ELSE l[i + 1]
    BY DEF NextOf
  <1>. HIDE DEF l
  <1>3. i \in DOMAIN l
    BY <1>1 DEF Nodes
  <1>. HIDE DEF i
  <1>4. DOMAIN l = 1 .. Len(l) /\ Len(l) \in Nat
    BY <1>1, LenProperties
  <1>5. ASSUME i # Len(l) PROVE l[i + 1] \in Nodes(l)
    BY <1>3, <1>4, <1>5 DEF Nodes
  <1>. QED
    BY <1>1, <1>2, <1>5

(* A thread that searches goes on to the next node.                        *)
LEMMA CmdSearch ==
  ASSUME CmdInv, RequestsRunOnce, NEW t \in CallerThreads, SearchStep(t)
  PROVE  CmdInv' /\ RequestsRunOnce'
  <1>. DEFINE c == caller[t]
  <1>1. UNCHANGED <<queueVars, now, loop, pushed, ran>>
    BY DEF SearchStep
  <1>2. /\ c \in [req : Requests \cup {NoCmd}, at : QNodes \cup {NoNode}]
        /\ c.at \in Linked /\ c.at # NoNode
    BY DEF SearchStep, CmdInv, CmdTypeOK, SearchesLinked
  <1>3. NextOf(c.at) \in Linked /\ Linked \subseteq QNodes \cup {NoNode} /\ NoNode \in Linked
    BY <1>2, NextLinked, NodesFinite DEF Linked, CmdInv, CmdTypeOK
  <1>4. \E x \in [req : Requests \cup {NoCmd}, at : Linked] : caller' = [caller EXCEPT ![t] = x]
    <2>1. CASE caller' = [caller EXCEPT ![t] = NoRequest]
      BY <1>3, <2>1 DEF NoRequest
    <2>2. CASE caller' = [caller EXCEPT ![t].at = NextOf(c.at)]
      <3>1. [c EXCEPT !.at = NextOf(c.at)] \in [req : Requests \cup {NoCmd}, at : Linked]
        BY <1>2, <1>3
      <3>. QED
        BY <2>2, <3>1
    <2>. QED
      BY <2>1, <2>2 DEF SearchStep
  <1>5. CmdTypeOK'
    BY <1>1, <1>3, <1>4 DEF CmdInv, CmdTypeOK, queueVars
  <1>6. SearchesLinked'
    <2>1. Linked' = Linked
      BY <1>1 DEF Linked, queueVars, Nodes
    <2>. QED
      BY <1>4, <2>1 DEF CmdInv, CmdTypeOK, SearchesLinked
  <1>. QED
    BY <1>1, <1>5, <1>6, QueueSame, CountsSame DEF CmdInv, queueVars

(* A request is put into the queue, in a node from the trash or a new one. *)
LEMMA CmdPush ==
  ASSUME CmdInv, RequestsRunOnce, NEW t \in CallerThreads, PushRequest(t)
  PROVE  CmdInv' /\ RequestsRunOnce'
  <1>. DEFINE c == caller[t]
              n == IF trash # <<>> THEN trash[1] ELSE usedNodes + 1
  <1>1. /\ c.req # NoCmd /\ n \in QNodes
        /\ trash' = IF trash # <<>> THEN Tail(trash) ELSE trash
        /\ usedNodes' = IF trash # <<>> THEN usedNodes ELSE usedNodes + 1
        /\ sched' = [sched EXCEPT ![n] = c.req] /\ cmdQueue' = <<n>> \o cmdQueue
        /\ caller' = [caller EXCEPT ![t] = NoRequest]
        /\ pushed' = [pushed EXCEPT ![c.req] = @ + 1] /\ UNCHANGED <<now, loop, ran>>
    BY DEF PushRequest
  <1>2. c.req \in Requests /\ cmdQueue \in Seq(QNodes) /\ trash \in Seq(QNodes) /\ usedNodes \in Nat
    BY <1>1 DEF CmdInv, CmdTypeOK
  <1>3. /\ NodesDiffer(cmdQueue) /\ NodesDiffer(trash) /\ Nodes(cmdQueue) \cap Nodes(trash) = {}
        /\ Nodes(cmdQueue) \cup Nodes(trash) \subseteq 1 .. usedNodes
    BY DEF CmdInv, NodesOnce
  <1>4. /\ n \notin Nodes(cmdQueue) /\ trash' \in Seq(QNodes) /\ NodesDiffer(trash')
        /\ Nodes(trash') = Nodes(trash) \ {n} /\ usedNodes' \in Nat
        /\ n \in 1 .. usedNodes' /\ 1 .. usedNodes \subseteq 1 .. usedNodes'
    <2>1. CASE trash # <<>>
      BY <1>1, <1>2, <1>3, <2>1, PoppedNodes
    <2>2. CASE trash = <<>>
      <3>1. n = usedNodes + 1 /\ trash' = trash /\ usedNodes' = usedNodes + 1
        BY <1>1, <2>2
      <3>2. n \notin 1 .. usedNodes
        BY <1>2, <3>1
      <3>3. n \in 1 .. usedNodes' /\ 1 .. usedNodes \subseteq 1 .. usedNodes' /\ usedNodes' \in Nat
        BY <1>2, <3>1
      <3>. QED
        BY <1>2, <1>3, <3>1, <3>2, <3>3
    <2>. QED
      BY <2>1, <2>2
  <1>. HIDE DEF n
  <1>5. cmdQueue' \in Seq(QNodes) /\ NodesDiffer(cmdQueue') /\ Nodes(cmdQueue') = Nodes(cmdQueue) \cup {n}
    BY <1>1, <1>2, <1>3, <1>4, PushedNodes
  <1>6. \A m \in Nodes(cmdQueue) : sched'[m] = sched[m] /\ sched[m] \in Requests
    BY <1>1, <1>4 DEF CmdInv, CmdTypeOK, NodesOnce
  <1>7. sched'[n] = c.req
    BY <1>1 DEF CmdInv, CmdTypeOK
  <1>8. CmdTypeOK'
    <2>1. sched' \in [QNodes -> Requests \cup {NoCmd}] /\ pushed' \in [Requests -> Nat]
      BY <1>1, <1>2 DEF CmdInv, CmdTypeOK
    <2>2. caller' \in [CallerThreads -> [req : Requests \cup {NoCmd}, at : QNodes \cup {NoNode}]]
      BY <1>1 DEF CmdInv, CmdTypeOK, NoRequest
    <2>. QED
      BY <1>1, <1>4, <1>5, <2>1, <2>2 DEF CmdInv, CmdTypeOK
  <1>9. NodesOnce'
    <2>1. (Nodes(cmdQueue) \cap Nodes(trash) = {})'
      BY <1>3, <1>4, <1>5
    <2>2. Nodes(cmdQueue') \cup Nodes(trash') \subseteq 1 .. usedNodes'
      BY <1>3, <1>4, <1>5
    <2>3. \A m \in Nodes(cmdQueue') : sched'[m] \in Requests
      BY <1>2, <1>5, <1>6, <1>7
    <2>. QED
      BY <1>4, <1>5, <2>1, <2>2, <2>3 DEF NodesOnce
  <1>10. LoopInQueue'
    BY <1>1, <1>5 DEF CmdInv, LoopInQueue
  <1>11. SearchesLinked'
    <2>1. Linked \subseteq Linked' /\ NoNode \in Linked'
      BY <1>4, <1>5 DEF Linked
    <2>. QED
      BY <1>1, <2>1 DEF CmdInv, CmdTypeOK, SearchesLinked, NoRequest
  <1>12. ASSUME NEW r \in Requests PROVE Balanced(r)'
    <2>1. Balanced(r) /\ ran[r] \in Nat /\ pushed[r] \in Nat /\ ran'[r] = ran[r]
      BY <1>1, RunOnceIsBalance DEF CmdInv, CmdTypeOK
    <2>2. IsFiniteSet(Waiting(r)) /\ Cardinality(Waiting(r)) \in Nat
      BY WaitingCounted DEF CmdInv
    <2>3. Running(r)' = Running(r) /\ Running(r) \in {0, 1}
      BY <1>1, <1>6 DEF CmdInv, LoopInQueue, Running
    <2>4. CASE r = c.req
      <3>1. Waiting(r)' = Waiting(r) \cup {n} /\ n \notin Waiting(r)
        BY <1>4, <1>5, <1>6, <1>7, <2>4 DEF Waiting
      <3>2. Cardinality(Waiting(r)') = Cardinality(Waiting(r)) + 1
        BY <2>2, <3>1, FS_AddElement
      <3>3. pushed'[r] = pushed[r] + 1
        BY <1>1, <2>4 DEF CmdInv, CmdTypeOK
      <3>. QED
        BY <2>1, <2>2, <2>3, <3>2, <3>3 DEF Balanced
    <2>5. CASE r # c.req
      <3>1. Waiting(r)' = Waiting(r)
        BY <1>5, <1>6, <1>7, <2>5 DEF Waiting
      <3>2. pushed'[r] = pushed[r]
        BY <1>1, <2>5 DEF CmdInv, CmdTypeOK
      <3>. QED
        BY <2>1, <2>3, <3>1, <3>2 DEF Balanced
    <2>. QED
      BY <2>4, <2>5
  <1>13. RequestsRunOnce'
    BY <1>12 DEF RequestsRunOnce, Balanced, Waiting, Running
  <1>. QED
    BY <1>8, <1>9, <1>10, <1>11, <1>13 DEF CmdInv

(* The loop starts at the first node.                                      *)
LEMMA CmdLoop ==
  ASSUME CmdInv, RequestsRunOnce, LoopStarts
  PROVE  CmdInv' /\ RequestsRunOnce'
  <1>1. /\ loop.pc = "idle" /\ UNCHANGED <<queueVars, now, caller, pushed, ran>>
        /\ loop' = [pc |-> "visit", cursor |-> First(cmdQueue), it |-> NoNode, tm |-> now]
    BY DEF LoopStarts
  <1>2. First(cmdQueue) \in Nodes(cmdQueue) \cup {NoNode} /\ Nodes(cmdQueue) \subseteq QNodes
    <2>1. CASE cmdQueue # <<>>
      BY <2>1, PoppedNodes, NodesFinite DEF CmdInv, CmdTypeOK, NodesOnce, First
    <2>. QED
      BY <2>1, NodesFinite DEF First, CmdInv, CmdTypeOK
  <1>3. CmdTypeOK'
    BY <1>1, <1>2 DEF CmdInv, CmdTypeOK, queueVars
  <1>4. NodesOnce' /\ SearchesLinked'
    BY <1>1 DEF CmdInv, NodesOnce, NodesDiffer, Nodes, SearchesLinked, Linked, queueVars
  <1>5. LoopInQueue'
    <2>1. Nodes(cmdQueue') = Nodes(cmdQueue)
      BY <1>1 DEF queueVars
    <2>. QED
      BY <1>1, <1>2, <2>1 DEF LoopInQueue
  <1>6. RequestsRunOnce'
    BY <1>1 DEF RequestsRunOnce, queueVars, Nodes
  <1>. QED
    BY <1>3, <1>4, <1>5, <1>6 DEF CmdInv

(* The loop looks at one entry, and executes it when it is due.            *)
LEMMA CmdVisit ==
  ASSUME CmdInv, RequestsRunOnce, cb_check_queue
  PROVE  CmdInv' /\ RequestsRunOnce'
  <1>. DEFINE n == loop.cursor
  <1>1. loop.pc = "visit" /\ UNCHANGED <<queueVars, now, caller, pushed>>
    BY DEF cb_check_queue
  <1>2. /\ n = NoNode => loop' = LoopIdle /\ ran' = ran
        /\ n # NoNode => \/ /\ loop' = [loop EXCEPT !.pc = "action", !.cursor = NextOf(n), !.it = n]
                            /\ ran' = [ran EXCEPT ![sched[n]] = @ + 1]
                         \/ loop' = [loop EXCEPT !.cursor = NextOf(n)] /\ ran' = ran
    BY DEF cb_check_queue
  <1>3. /\ loop \in [pc : {"idle", "visit", "action"}, cursor : QNodes \cup {NoNode},
                     it : QNodes \cup {NoNode}, tm : Nat]
        /\ ran \in [Requests -> Nat] /\ cmdQueue \in Seq(QNodes) /\ Nodes(cmdQueue) \subseteq QNodes
    BY NodesFinite DEF CmdInv, CmdTypeOK
  <1>4. /\ n # NoNode => n \in Nodes(cmdQueue) /\ sched[n] \in Requests
        /\ n # NoNode => NextOf(n) \in Nodes(cmdQueue) \cup {NoNode}
    BY <1>3, NextInQueue DEF CmdInv, NodesOnce, LoopInQueue
  <1>5. NodesOnce' /\ SearchesLinked' /\ Nodes(cmdQueue') = Nodes(cmdQueue)
    BY <1>1 DEF CmdInv, NodesOnce, NodesDiffer, Nodes, SearchesLinked, Linked, queueVars
  <1>6. ASSUME NEW r \in Requests
        PROVE  Balanced(r) /\ Waiting(r)' = Waiting(r) /\ pushed'[r] = pushed[r] /\ Running(r) = 0
               /\ ran[r] \in Nat /\ pushed[r] \in Nat /\ Cardinality(Waiting(r)) \in Nat
    <2>1. Waiting(r)' = Waiting(r)
      BY <1>1 DEF Waiting, queueVars, Nodes
    <2>. QED
      BY <1>1, <1>3, <2>1, RunOnceIsBalance, WaitingCounted DEF CmdInv, CmdTypeOK, Running
  <1>7. CASE n = NoNode
    <2>1. loop' = LoopIdle /\ ran' = ran
      BY <1>2, <1>7
    <2>2. CmdTypeOK' /\ LoopInQueue'
      BY <1>1, <2>1 DEF CmdInv, CmdTypeOK, LoopInQueue, LoopIdle, queueVars
    <2>3. RequestsRunOnce'
      <3>1. ASSUME NEW r \in Requests PROVE Balanced(r)'
        <4>1. Running(r)' = 0
          BY <2>1 DEF Running, LoopIdle
        <4>. QED
          BY <1>6, <2>1, <4>1 DEF Balanced
      <3>. QED
        BY <3>1 DEF RequestsRunOnce, Balanced, Waiting, Running
    <2>. QED
      BY <1>5, <2>2, <2>3 DEF CmdInv
  <1>8. CASE /\ n # NoNode /\ ran' = [ran EXCEPT ![sched[n]] = @ + 1]
             /\ loop' = [loop EXCEPT !.pc = "action", !.cursor = NextOf(n), !.it = n]
    <2>1. loop'.pc = "action" /\ loop'.cursor = NextOf(n) /\ loop'.it = n
      BY <1>3, <1>8
    <2>2. CmdTypeOK'
      <3>1. ran' \in [Requests -> Nat]
        BY <1>3, <1>4, <1>8
      <3>2. loop' \in [pc : {"idle", "visit", "action"}, cursor : QNodes \cup {NoNode},
                       it : QNodes \cup {NoNode}, tm : Nat]
        BY <1>3, <1>4, <1>8
      <3>. QED
        BY <1>1, <3>1, <3>2 DEF CmdInv, CmdTypeOK, queueVars
    <2>3. LoopInQueue'
      BY <1>4, <1>5, <1>8, <2>1 DEF LoopInQueue
    <2>4. RequestsRunOnce'
      <3>1. ASSUME NEW r \in Requests PROVE Balanced(r)'
        <4>1. sched' = sched
          BY <1>1 DEF queueVars
        <4>2. ran'[r] = ran[r] + Running(r)' /\ Running(r)' \in {0, 1}
          BY <1>3, <1>4, <1>8, <2>1, <4>1 DEF Running
        <4>. QED
          BY <1>6, <4>2 DEF Balanced
      <3>. QED
        BY <3>1 DEF RequestsRunOnce, Balanced, Waiting, Running
    <2>. QED
      BY <1>5, <2>2, <2>3, <2>4 DEF CmdInv
  <1>9. CASE n # NoNode /\ loop' = [loop EXCEPT !.cursor = NextOf(n)] /\ ran' = ran
    <2>1. loop'.pc = "visit" /\ loop'.cursor = NextOf(n)
      BY <1>1, <1>3, <1>9
    <2>2. CmdTypeOK'
      <3>1. loop' \in [pc : {"idle", "visit", "action"}, cursor : QNodes \cup {NoNode},
                       it : QNodes \cup {NoNode}, tm : Nat]
        BY <1>3, <1>4, <1>9
      <3>. QED
        BY <1>1, <1>9, <3>1 DEF CmdInv, CmdTypeOK, queueVars
    <2>3. LoopInQueue'
      BY <1>4, <1>5, <1>9, <2>1 DEF LoopInQueue
    <2>4. RequestsRunOnce'
      <3>1. ASSUME NEW r \in Requests PROVE Balanced(r)'
        <4>1. Running(r)' = 0
          BY <2>1 DEF Running
        <4>. QED
          BY <1>6, <1>9, <4>1 DEF Balanced
      <3>. QED
        BY <3>1 DEF RequestsRunOnce, Balanced, Waiting, Running
    <2>. QED
      BY <1>5, <2>2, <2>3, <2>4 DEF CmdInv
  <1>. QED
    BY <1>2, <1>7, <1>8, <1>9

(* The first entry that equals the executed one is taken out.              *)
LEMMA CmdRemove ==
  ASSUME CmdInv, RequestsRunOnce, RemoveExecuted
  PROVE  CmdInv' /\ RequestsRunOnce'
  <1>. DEFINE k == FirstEqual(sched[loop.it])
              n == cmdQueue[k]
  <1>1. /\ loop.pc = "action" /\ cmdQueue' = Without(cmdQueue, k) /\ trash' = <<n>> \o trash
        /\ loop' = [loop EXCEPT !.pc = "visit", !.it = NoNode,
                                !.cursor = IF @ = n THEN NextOf(n) ELSE @]
        /\ UNCHANGED <<sched, usedNodes, now, caller, pushed, ran>>
    BY DEF RemoveExecuted
  <1>2. loop.it \in Nodes(cmdQueue) /\ cmdQueue \in Seq(QNodes) /\ trash \in Seq(QNodes)
    BY <1>1 DEF CmdInv, CmdTypeOK, LoopInQueue
  <1>3. k \in DOMAIN cmdQueue /\ sched[n] = sched[loop.it]
    BY <1>2, FindsEqual
  <1>. HIDE DEF k
  <1>4. /\ n \in Nodes(cmdQueue) /\ n \in QNodes /\ cmdQueue' \in Seq(QNodes)
        /\ NodesDiffer(cmdQueue') /\ Nodes(cmdQueue') = Nodes(cmdQueue) \ {n}
    BY <1>1, <1>2, <1>3, RemovedNodes DEF CmdInv, NodesOnce
  <1>5. /\ trash' \in Seq(QNodes) /\ NodesDiffer(trash') /\ Nodes(trash') = Nodes(trash) \cup {n}
    BY <1>1, <1>2, <1>4, PushedNodes DEF CmdInv, NodesOnce
  <1>6. NextOf(n) \in (Nodes(cmdQueue) \ {n}) \cup {NoNode}
    BY <1>2, <1>4, NextInQueue DEF CmdInv, NodesOnce
  <1>. HIDE DEF n
  <1>7. loop'.pc = "visit" /\ loop'.cursor = IF loop.cursor = n THEN NextOf(n) ELSE loop.cursor
    BY <1>1 DEF CmdInv, CmdTypeOK
  <1>8. loop'.cursor \in Nodes(cmdQueue') \cup {NoNode}
    BY <1>4, <1>6, <1>7 DEF CmdInv, LoopInQueue
  <1>9. CmdTypeOK'
    <2>1. Nodes(cmdQueue) \subseteq QNodes
      BY <1>2, NodesFinite
    <2>2. loop' \in [pc : {"idle", "visit", "action"}, cursor : QNodes \cup {NoNode},
                     it : QNodes \cup {NoNode}, tm : Nat]
      BY <1>1, <1>6, <2>1 DEF CmdInv, CmdTypeOK
    <2>. QED
      BY <1>1, <1>4, <1>5, <2>2 DEF CmdInv, CmdTypeOK
  <1>10. NodesOnce'
    <2>1. Nodes(cmdQueue') \cap Nodes(trash') = {}
      BY <1>4, <1>5 DEF CmdInv, NodesOnce
    <2>2. Nodes(cmdQueue') \cup Nodes(trash') \subseteq 1 .. usedNodes'
      BY <1>1, <1>4, <1>5 DEF CmdInv, NodesOnce
    <2>3. \A m \in Nodes(cmdQueue') : sched'[m] \in Requests
      BY <1>1, <1>4 DEF CmdInv, NodesOnce
    <2>. QED
      BY <1>4, <1>5, <2>1, <2>2, <2>3 DEF NodesOnce
  <1>11. LoopInQueue'
    BY <1>7, <1>8 DEF LoopInQueue
  <1>12. SearchesLinked'
    <2>1. Linked' = Linked
      BY <1>4, <1>5 DEF Linked
    <2>. QED
      BY <1>1, <2>1 DEF CmdInv, SearchesLinked
  <1>13. ASSUME NEW r \in Requests PROVE Balanced(r)'
    <2>1. Balanced(r) /\ ran[r] \in Nat /\ pushed[r] \in Nat /\ ran'[r] = ran[r] /\ pushed'[r] = pushed[r]
      BY <1>1, RunOnceIsBalance DEF CmdInv, CmdTypeOK
    <2>2. IsFiniteSet(Waiting(r)) /\ Cardinality(Waiting(r)) \in Nat
      BY WaitingCounted DEF CmdInv
    <2>3. Running(r)' = 0
      BY <1>7 DEF Running
    <2>4. CASE r = sched[n]
      <3>1. Running(r) = 1
        BY <1>1, <1>3, <2>4 DEF Running
      <3>2. Waiting(r)' = Waiting(r) \ {n} /\ n \in Waiting(r)
        BY <1>1, <1>4, <2>4 DEF Waiting
      <3>3. Cardinality(Waiting(r)') = Cardinality(Waiting(r)) - 1
        BY <2>2, <3>2, FS_RemoveElement
      <3>. QED
        BY <2>1, <2>2, <2>3, <3>1, <3>3 DEF Balanced
    <2>5. CASE r # sched[n]
      <3>1. Running(r) = 0
        BY <1>3, <2>5 DEF Running
      <3>2. Waiting(r)' = Waiting(r)
        BY <1>1, <1>4, <2>5 DEF Waiting
      <3>. QED
        BY <2>1, <2>3, <3>1, <3>2 DEF Balanced
    <2>. QED
      BY <2>4, <2>5
  <1>14. RequestsRunOnce'
    BY <1>13 DEF RequestsRunOnce, Balanced, Waiting, Running
  <1>. QED
    BY <1>9, <1>10, <1>11, <1>12, <1>14 DEF CmdInv

(* Every step keeps the scheduler's lists and its balance.                 *)
LEMMA CmdStep ==
  ASSUME CmdInv, RequestsRunOnce, [CommandsNext]_cmdVars
  PROVE  CmdInv' /\ RequestsRunOnce'
  <1>1. CASE CommandsNext
    BY <1>1, CmdRegister, CmdReset, CmdSchedule, CmdSearch, CmdPush, CmdLoop, CmdVisit, CmdRemove,
       CmdTime DEF CommandsNext
  <1>2. CASE UNCHANGED cmdVars
    <2>1. CmdTypeOK'
      BY <1>2 DEF CmdInv, CmdTypeOK, cmdVars
    <2>. QED
      BY <1>2, <2>1, QueueSame, CountsSame DEF CmdInv, cmdVars
  <1>. QED
    BY <1>1, <1>2

(* Every request that ci_command_schedule_on has put into the queue is     *)
(* executed once by commands_exec_scheduled or is still there, for any     *)
(* threads that schedule without the lock while it walks, any commands and *)
(* times, and any number of nodes that are removed and used again.         *)
THEOREM ScheduledRunOnce == CommandsSpec => []RequestsRunOnce
  <1>1. CommandsInit => CmdInv /\ RequestsRunOnce
    BY CmdStart
  <1>2. CmdInv /\ RequestsRunOnce /\ [CommandsNext]_cmdVars => (CmdInv /\ RequestsRunOnce)'
    BY CmdStep
  <1>. QED
    BY <1>1, <1>2, PTL DEF CommandsSpec
=============================================================================
