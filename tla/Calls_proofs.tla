---------------------------- MODULE Calls_proofs ----------------------------
(* Proofs about the provider calls, for any Bootstraps, sources, secrets,  *)
(* charts and numbers of attempts and crashes.                             *)
EXTENDS Calls, HelmChart_proofs

(* The part of TypeOK the timeouts depend on. *)
JobType ==
  /\ timeout \in BOOLEAN
  /\ log \in Seq([key : Bootstraps \cup {NoJob}, result : Results])
  /\ pc \in {"idle", "prepare", "credentials", "waiting", "working"}
  /\ pc # "idle" => job \in Job

(* Why: the default client has a timeout as soon as an attempt for a       *)
(* public release has sent its first request, and keeps it; a request of   *)
(* the default client is bounded exactly if that client has a timeout.     *)
Sent == pc \in {"waiting", "working"} \/ job.phase = "fetch"

TimeoutKnown ==
  /\ ReleaseTried => timeout
  /\ pc # "idle" /\ Sent /\ AnonymousRelease(job.key) => timeout
  /\ pc = "waiting" =>
       /\ Kind # "configmap"
       /\ UsesDefault => job.bounded = timeout
       /\ Released /\ job.phase = "check" => job.bounded
  /\ pc = "credentials" => Kind = "helm-oci"

CallsInv == JobType /\ TimeoutKnown

-----------------------------------------------------------------------------
LEMMA EndKeeps ==
  ASSUME CallsInv, pc # "idle", NEW result \in Results \ {"crashed"}, NEW left,
         End(result, left), UNCHANGED timeout,
         AnonymousRelease(job.key) => timeout
  PROVE  CallsInv'
<1> DEFINE entry == [key |-> job.key, result |-> result]
<1>1. entry \in [key : Bootstraps \cup {NoJob}, result : Results]
  BY DEF CallsInv, JobType, Job
<1>2. JobType'
  BY <1>1 DEF CallsInv, JobType, End, Job
<1>3. ASSUME ReleaseTried' PROVE timeout
  <2>1. PICK n \in 1..Len(log') :
          /\ log'[n].key # NoJob
          /\ AnonymousRelease(log'[n].key)
          /\ \A m \in n..Len(log') : log'[m].result # "crashed"
    BY <1>3 DEF ReleaseTried, AnonymousRelease
  <2>2. log \in Seq([key : Bootstraps \cup {NoJob}, result : Results]) /\ log' = Append(log, entry)
    BY DEF CallsInv, JobType, End
  <2>3. Len(log) \in Nat /\ Len(log') = Len(log) + 1
    BY <1>1, <2>2
  <2>4. CASE n = Len(log) + 1
    BY <1>1, <2>1, <2>2, <2>4
  <2>5. CASE n # Len(log) + 1
    <3>1. n \in 1..Len(log)
      BY <2>1, <2>3, <2>5
    <3>2. \A m \in n..Len(log) : m \in n..Len(log') /\ log'[m] = log[m]
      BY <1>1, <2>2, <2>3, <3>1
    <3>3. n \in n..Len(log)
      BY <2>3, <3>1
    <3> QED
      BY <2>1, <3>1, <3>2, <3>3 DEF ReleaseTried, CallsInv, TimeoutKnown
  <2> QED
    BY <2>4, <2>5
<1> QED
  BY <1>2, <1>3 DEF End, CallsInv, TimeoutKnown

LEMMA FailKeeps ==
  ASSUME CallsInv, pc # "idle", CallFails, UNCHANGED timeout,
         AnonymousRelease(job.key) => timeout
  PROVE  CallsInv'
  BY EndKeeps DEF CallFails, FailRemoving, Failure, Results

(* Kinds with a client of their own never make a public release request.   *)
LEMMA RequestKeeps ==
  ASSUME CallsInv, pc \in {"prepare", "credentials"}, Kind # "configmap", Request, UNCHANGED log
  PROVE  CallsInv'
<1>1. job \in Job /\ timeout \in BOOLEAN
  BY DEF CallsInv, JobType
<1>2. PICK bounded \in BOOLEAN :
        /\ bounded \in IF UsesDefault THEN {timeout'} ELSE OwnTimeout
        /\ job' = [job EXCEPT !.bounded = bounded,
                              !.left = IF Kind = "gitlab" /\ job.phase = "fetch" THEN 1 ELSE 0]
  BY <1>1 DEF Request, OwnTimeout
<1>3. /\ job' \in Job /\ job'.key = job.key /\ job'.phase = job.phase
      /\ job'.bounded = bounded
  <2>1. PICK left \in 0..1 : job' = [job EXCEPT !.bounded = bounded, !.left = left]
    <3> DEFINE left == IF Kind = "gitlab" /\ job.phase = "fetch" THEN 1 ELSE 0
    <3>1. left \in 0..1
      OBVIOUS
    <3>2. job' = [job EXCEPT !.bounded = bounded, !.left = left]
      BY <1>2
    <3> HIDE DEF left
    <3> QED
      BY <3>1, <3>2
  <2>2. job' = [key |-> job.key, phase |-> job.phase, left |-> left, bounded |-> bounded]
    BY <1>1, <2>1, Zenon DEF Job
  <2> QED
    BY <1>1, <2>1, <2>2 DEF Job
<1>4. /\ pc' = "waiting"
      /\ timeout' = (timeout \/ (UsesDefault /\ Released /\ job.phase = "check"))
  BY DEF Request
<1>5. Kind' = Kind /\ (UsesDefault <=> UsesDefault') /\ (Released <=> Released')
  BY <1>3 DEF Kind, UsesDefault, Released, HasRef
<1>6. JobType'
  BY <1>1, <1>3, <1>4 DEF CallsInv, JobType
<1>7. (ReleaseTried => timeout)'
  BY <1>4 DEF CallsInv, TimeoutKnown, ReleaseTried
<1>8. AnonymousRelease(job'.key) => timeout'
  <2>1. SUFFICES ASSUME AnonymousRelease(job.key) PROVE timeout'
    BY <1>3
  <2>2. UsesDefault /\ Released
    BY <2>1 DEF AnonymousRelease, UsesDefault, Released, Kind, HasRef
  <2>3. CASE job.phase = "check"
    BY <1>4, <2>2, <2>3
  <2>4. CASE job.phase = "fetch"
    BY <1>4, <2>1, <2>4 DEF CallsInv, TimeoutKnown, Sent
  <2> QED
    BY <1>1, <2>3, <2>4 DEF Job
<1>9. UsesDefault' => job'.bounded = timeout'
  BY <1>2, <1>3, <1>5
<1>10. Released' /\ job'.phase = "check" => job'.bounded
  <2>1. SUFFICES ASSUME Released, job.phase = "check" PROVE bounded
    BY <1>3, <1>5
  <2>2. CASE UsesDefault
    BY <1>1, <1>2, <1>4, <2>1, <2>2
  <2>3. CASE ~UsesDefault
    <3>1. OwnTimeout = {TRUE}
      BY <2>1 DEF OwnTimeout, Released
    <3> QED
      BY <1>2, <2>3, <3>1
  <2> QED
    BY <2>2, <2>3
<1> QED
  BY <1>4, <1>5, <1>6, <1>7, <1>8, <1>9, <1>10 DEF CallsInv, TimeoutKnown, Sent

LEMMA AnswerKeeps ==
  ASSUME CallsInv, pc \in {"prepare", "waiting"}, Answered, UNCHANGED timeout,
         AnonymousRelease(job.key) => timeout
  PROVE  CallsInv'
<1>1. job \in Job /\ pc # "idle"
  BY DEF CallsInv, JobType
<1>2. CASE \E left : \/ End("nothing new", left) \/ End("check failed", left)
                     \/ End("no directory", left)
  BY <1>1, <1>2, EndKeeps DEF Results
<1>3. CASE /\ pc' = "prepare"
           /\ job' = [job EXCEPT !.phase = "fetch", !.left = 0]
           /\ UNCHANGED log
  <2>1. job' \in Job /\ job'.key = job.key
    <3>1. job' = [key |-> job.key, phase |-> "fetch", left |-> 0, bounded |-> job.bounded]
      BY <1>1, <1>3 DEF Job
    <3>2. 0 \in 0..1
      OBVIOUS
    <3> QED
      BY <1>1, <3>1, <3>2 DEF Job
  <2> QED
    BY <1>3, <2>1 DEF CallsInv, JobType, TimeoutKnown, ReleaseTried
<1>4. CASE pc' = "working" /\ UNCHANGED <<job, log>>
  BY <1>1, <1>4 DEF CallsInv, JobType, TimeoutKnown, ReleaseTried
<1> QED
  BY <1>2, <1>3, <1>4 DEF Answered, Checked, FetchedChart

LEMMA CallsStep ==
  ASSUME CallsInv, [Next]_vars
  PROVE  CallsInv'
<1>1. ASSUME NEW b \in Bootstraps, Take(b) PROVE CallsInv'
  <2>1. /\ pc' = "prepare" /\ UNCHANGED <<timeout, log>>
        /\ job' \in Job /\ job'.phase = "check"
    BY <1>1 DEF Take, Job
  <2> QED
    BY <2>1 DEF CallsInv, JobType, TimeoutKnown, ReleaseTried, Sent
<1>2. CASE Refuse
  <2>1. ~AnonymousRelease(job.key)
    BY <1>2 DEF Refuse, Refused, AnonymousRelease, HasRef
  <2> QED
    BY <1>2, <2>1, FailKeeps DEF Refuse
<1>3. CASE ReadCredentials \/ SaveCredentials
  BY <1>3 DEF ReadCredentials, SaveCredentials, MakesConfig, CallsInv, JobType, TimeoutKnown,
          ReleaseTried, Sent, Kind
<1>4. CASE Send \/ SendAuthorised
  <2>1. Kind # "configmap" /\ pc \in {"prepare", "credentials"} /\ Request /\ UNCHANGED log
    BY <1>4 DEF Send, SendAuthorised, CallsInv, TimeoutKnown
  <2> QED
    BY <2>1, RequestKeeps
<1>5. CASE CredentialsFail
  <2>1. ~AnonymousRelease(job.key)
    BY <1>5 DEF CredentialsFail, CallsInv, TimeoutKnown, AnonymousRelease, Kind
  <2> QED
    BY <1>5, <2>1, EndKeeps DEF CredentialsFail, FailRemoving, Failure, Results
<1>6. CASE ReadConfigMap
  <2>1. ~AnonymousRelease(job.key)
    BY <1>6 DEF ReadConfigMap, AnonymousRelease, Kind
  <2> QED
    BY <1>6, <2>1, AnswerKeeps, FailKeeps DEF ReadConfigMap
<1>7. CASE Respond \/ Expire
  <2>1. pc = "waiting" /\ UNCHANGED timeout /\ (AnonymousRelease(job.key) => timeout)
    BY <1>7 DEF Respond, Expire, CallsInv, TimeoutKnown, Sent
  <2>2. CASE NextRequest
    <3>1. job \in Job /\ job.left - 1 \in 0..1
      BY <2>1, <2>2 DEF NextRequest, CallsInv, JobType, Job
    <3>2. /\ job' \in Job /\ job'.key = job.key /\ job'.phase = job.phase
          /\ job'.bounded = job.bounded
      BY <2>2, <3>1 DEF NextRequest, Job
    <3>3. UNCHANGED <<pc, log>>
      BY <2>2 DEF NextRequest
    <3> QED
      BY <2>1, <3>2, <3>3
         DEF CallsInv, JobType, TimeoutKnown, ReleaseTried, Sent, Kind, UsesDefault, Released, HasRef
  <2>3. CASE CallFails
    BY <2>1, <2>3, FailKeeps
  <2>4. CASE Answered
    BY <2>1, <2>4, AnswerKeeps
  <2>5. CASE \E left : End("check failed", left)
    BY <2>1, <2>5, EndKeeps DEF Results
  <2> QED
    BY <1>7, <2>2, <2>3, <2>4, <2>5 DEF Respond, Expire, Rejected
<1>8. CASE Finish
  <2>1. AnonymousRelease(job.key) => timeout
    BY <1>8 DEF Finish, CallsInv, TimeoutKnown, Sent
  <2> QED
    BY <1>8, <2>1, EndKeeps DEF Finish, Results
<1>9. CASE Crash
  <2> DEFINE entry == [key |-> IF pc = "idle" THEN NoJob ELSE job.key, result |-> "crashed"]
  <2>1. entry \in [key : Bootstraps \cup {NoJob}, result : Results]
    BY DEF CallsInv, JobType, Job, Results
  <2>2. /\ log \in Seq([key : Bootstraps \cup {NoJob}, result : Results])
        /\ log' = Append(log, entry) /\ pc' = "idle" /\ timeout' = FALSE
    BY <1>9 DEF Crash, CallsInv, JobType
  <2> HIDE DEF entry
  <2>3. /\ log' \in Seq([key : Bootstraps \cup {NoJob}, result : Results])
        /\ Len(log') \in Nat /\ \A n \in 1..Len(log') : Len(log') \in n..Len(log')
        /\ log'[Len(log')] = entry
    BY <2>1, <2>2
  <2>4. ~ReleaseTried'
    BY <2>3 DEF ReleaseTried, entry
  <2> QED
    BY <2>2, <2>3, <2>4 DEF CallsInv, JobType, TimeoutKnown
<1>10. CASE UNCHANGED vars \/ \E b \in SecretRef : EditSecret(b)
  BY <1>10 DEF vars, EditSecret, CallsInv, JobType, TimeoutKnown, ReleaseTried, Sent, Kind,
          UsesDefault, Released, HasRef
<1> QED
  BY <1>1, <1>2, <1>3, <1>4, <1>5, <1>6, <1>7, <1>8, <1>9, <1>10 DEF Next, Worker

LEMMA CallsKnown == Spec => []CallsInv
<1>1. Init => CallsInv
  <2> SUFFICES ASSUME Init PROVE CallsInv
    OBVIOUS
  <2>1. timeout = FALSE /\ log = <<>> /\ pc = "idle"
    BY DEF Init
  <2>2. log \in Seq([key : Bootstraps \cup {NoJob}, result : Results]) /\ 1..Len(log) = {}
    BY <2>1
  <2> QED
    BY <2>1, <2>2 DEF CallsInv, JobType, TimeoutKnown, ReleaseTried
<1> QED
  BY <1>1, CallsStep, PTL DEF Spec

(* Only requests with credentials, those of Helm's own clients, and URLs   *)
(* and indexes before the first public release check can wait for ever.    *)
THEOREM HangsAreKnown == Spec => []WhoMayHang
<1>1. CallsInv => WhoMayHang
  <2> SUFFICES ASSUME CallsInv, pc = "waiting", ~job.bounded
               PROVE  \/ Kind = "helm-oci" \/ Downloading
                      \/ Released /\ job.phase = "fetch" /\ HasRef
                      \/ Kind \in {"url", "helm-http"} /\ (HasRef \/ ~ReleaseTried)
    BY DEF WhoMayHang
  <2>1. /\ job \in Job /\ job.key \in Bootstraps
        /\ Kind \in Kinds \ {"configmap"}
        /\ UsesDefault => ~timeout
        /\ ~(Released /\ job.phase = "check")
        /\ ReleaseTried => timeout
        /\ AnonymousRelease(job.key) => timeout
    BY CallsAssumption DEF CallsInv, JobType, TimeoutKnown, Job, Kind, Kinds, Sent
  <2>2. CASE UsesDefault
    <3>1. ~Released
      BY <2>1, <2>2 DEF UsesDefault, Released, AnonymousRelease, Kind, HasRef
    <3> QED
      BY <2>1, <2>2, <3>1 DEF UsesDefault, Released, Kinds
  <2>3. CASE ~UsesDefault
    BY <2>1, <2>3 DEF UsesDefault, Released, Kinds, Downloading, Job
  <2> QED
    BY <2>2, <2>3
<1> QED
  BY <1>1, CallsKnown, PTL

-----------------------------------------------------------------------------
(* The files of an attempt.                                                *)

Current == NamesOf(files, Len(log) + 1)
Stuck   == NamesOf(stuck, Len(log) + 1)

(* What an attempt has on disk while it runs, and which of it a removal    *)
(* has failed for.                                                         *)
AttemptFiles ==
  /\ pc = "idle" => Current = {} /\ Stuck = {}
  /\ pc \in {"prepare", "credentials", "waiting"} /\ job.phase = "check" =>
       /\ Current \subseteq {"crd-url", "config.json"}
       /\ "crd-url" \in Current => Kind = "url"
       /\ "config.json" \in Current => pc = "credentials"
       /\ Stuck = {}
  /\ pc # "idle" /\ job.phase = "fetch" =>
       /\ Current \subseteq {"crd", "index.yaml", "credentials", "helm-temp"}
       /\ "crd" \in Current
       /\ "index.yaml" \in Current <=> Kind = "helm-http"
       /\ "helm-temp" \in Current => pc = "waiting"
       /\ "credentials" \in Current => pc = "credentials" \/ "credentials" \in Stuck
       /\ Stuck \subseteq Current \cap {"credentials"}
       /\ pc \in {"prepare", "credentials"} => Stuck = {}
  /\ pc = "working" => job.phase = "fetch"
  /\ pc # "idle" /\ Current \cap {"config.json", "credentials"} # {} =>
       Kind = "helm-oci" /\ HasRef
  /\ pc = "credentials" => Kind = "helm-oci" /\ HasRef

OfAttempts(disk) == disk \subseteq File /\ \A f \in disk : f.attempt <= Len(log) + 1

FilesInv ==
  /\ OfAttempts(files)
  /\ OfAttempts(stuck)
  /\ LeftBehind
  /\ AttemptFiles

Names == {"crd", "crd-url", "helm-temp", "index.yaml", "config.json", "credentials", "connection"}

(* A disk after the attempt in progress removed some files and made some. *)
Edited(disk, gone, new) == (disk \ {Mine(x) : x \in gone}) \cup {Mine(x) : x \in new}

LEMMA EditedFiles ==
  ASSUME CallsInv, NEW disk, OfAttempts(disk),
         NEW removed \in SUBSET Names, NEW made \in SUBSET Names
  PROVE  /\ OfAttempts(Edited(disk, removed, made))
         /\ NamesOf(Edited(disk, removed, made), Len(log) + 1)
              = (NamesOf(disk, Len(log) + 1) \ removed) \cup made
<1> DEFINE edited == Edited(disk, removed, made)
<1>1. Len(log) \in Nat
  BY DEF CallsInv, JobType
<1>2. /\ \A x \in Names : Mine(x) \in File
      /\ \A x : Mine(x).name = x /\ Mine(x).attempt = Len(log) + 1
  BY <1>1 DEF Mine, File, Names
<1>3. \A f \in File : f.attempt = Len(log) + 1 => f = Mine(f.name)
  BY DEF Mine, File
<1>4. Len(log) + 1 <= Len(log) + 1
  BY <1>1
<1>5. disk \subseteq File /\ \A f \in disk : f.attempt <= Len(log) + 1
  BY DEF OfAttempts
<1> HIDE DEF Mine
<1>6. edited \subseteq File
  BY <1>2, <1>5 DEF Edited
<1>7. \A f \in edited : f.attempt <= Len(log) + 1
  BY <1>2, <1>4, <1>5 DEF Edited
<1>8. NamesOf(edited, Len(log) + 1) = (NamesOf(disk, Len(log) + 1) \ removed) \cup made
  <2>1. ASSUME NEW x \in NamesOf(edited, Len(log) + 1)
        PROVE  x \in (NamesOf(disk, Len(log) + 1) \ removed) \cup made
    BY <1>2, <1>3, <1>5, <2>1 DEF NamesOf, Edited
  <2>2. ASSUME NEW x \in made PROVE x \in NamesOf(edited, Len(log) + 1)
    <3>1. Mine(x) \in edited
      BY <2>2 DEF Edited
    <3> QED
      BY <1>2, <3>1 DEF NamesOf
  <2>3. ASSUME NEW x \in NamesOf(disk, Len(log) + 1) \ removed
        PROVE  x \in NamesOf(edited, Len(log) + 1)
    <3>1. PICK f \in disk : f.attempt = Len(log) + 1 /\ f.name = x
      BY <2>3 DEF NamesOf
    <3>2. f \in edited
      BY <1>2, <2>3, <3>1 DEF Edited
    <3> QED
      BY <3>1, <3>2 DEF NamesOf
  <2> QED
    BY <2>1, <2>2, <2>3
<1> QED
  BY <1>6, <1>7, <1>8 DEF OfAttempts

(* Nothing happens to the files of other attempts. *)
LEMMA OthersStay ==
  ASSUME CallsInv, NEW disk, NEW removed, NEW made, NEW n \in 1..Len(log)
  PROVE  NamesOf(Edited(disk, removed, made), n) = NamesOf(disk, n)
<1>1. n # Len(log) + 1
  BY DEF CallsInv, JobType
<1>2. \A x : Mine(x).attempt = Len(log) + 1
  BY DEF Mine
<1> HIDE DEF Mine
<1> QED
  BY <1>1, <1>2 DEF NamesOf, Edited

(* A removal leaves the file or not. *)
LEMMA RemainsNames ==
  ASSUME NEW name \in Names, NEW rest \in Remains(name)
  PROVE  \E kept \in SUBSET {name} :
           /\ kept \subseteq Current
           /\ (files \ {Mine(name)}) \cup rest = Edited(files, {name} \ kept, {})
           /\ stuck \cup rest = Edited(stuck, {}, kept)
           /\ rest = {} <=> kept = {}
<1>1. rest = {} \/ (rest = {Mine(name)} /\ Mine(name) \in files)
  BY DEF Remains
<1>2. CASE rest = {}
  <2>1. /\ {} \subseteq Current
        /\ (files \ {Mine(name)}) \cup rest = Edited(files, {name} \ {}, {})
        /\ stuck \cup rest = Edited(stuck, {}, {})
    BY <1>2 DEF Edited
  <2> QED
    BY <1>2, <2>1
<1>3. CASE rest = {Mine(name)} /\ Mine(name) \in files
  <2>1. {name} \subseteq Current
    BY <1>3 DEF Current, NamesOf, Mine
  <2>2. /\ (files \ {Mine(name)}) \cup rest = Edited(files, {name} \ {name}, {})
        /\ stuck \cup rest = Edited(stuck, {}, {name})
    BY <1>3 DEF Edited
  <2> QED
    BY <1>3, <2>1, <2>2
<1> QED
  BY <1>1, <1>2, <1>3

(* Nothing is stuck that was not. *)
LEMMA StuckStays == stuck = Edited(stuck, {}, {})
  BY DEF Edited

(* What such a step makes of the files of each attempt. *)
LEMMA EditsAttempt ==
  ASSUME CallsInv, FilesInv, NEW gone \in SUBSET Names, NEW new \in SUBSET Names,
         NEW kept \in SUBSET Names,
         files' = Edited(files, gone, new), stuck' = Edited(stuck, {}, kept)
  PROVE  /\ OfAttempts(files') /\ OfAttempts(stuck')
         /\ NamesOf(files', Len(log) + 1) = (Current \ gone) \cup new
         /\ NamesOf(stuck', Len(log) + 1) = Stuck \cup kept
         /\ \A n \in 1..Len(log) :
              NamesOf(files', n) = NamesOf(files, n) /\ NamesOf(stuck', n) = NamesOf(stuck, n)
<1>1. OfAttempts(files) /\ OfAttempts(stuck)
  BY DEF FilesInv
<1>2. /\ OfAttempts(Edited(files, gone, new))
      /\ NamesOf(Edited(files, gone, new), Len(log) + 1) = (Current \ gone) \cup new
  BY <1>1, EditedFiles DEF Current
<1>3. /\ OfAttempts(Edited(stuck, {}, kept))
      /\ NamesOf(Edited(stuck, {}, kept), Len(log) + 1) = (Stuck \ {}) \cup kept
  BY <1>1, EditedFiles DEF Stuck
<1>4. (Stuck \ {}) \cup kept = Stuck \cup kept
  OBVIOUS
<1>5. ASSUME NEW n \in 1..Len(log)
      PROVE  NamesOf(files', n) = NamesOf(files, n) /\ NamesOf(stuck', n) = NamesOf(stuck, n)
  BY OthersStay
<1> QED
  BY <1>2, <1>3, <1>4, <1>5, Zenon

(* An attempt goes on. *)
LEMMA EditKeeps ==
  ASSUME CallsInv, FilesInv, NEW gone \in SUBSET Names, NEW new \in SUBSET Names,
         NEW kept \in SUBSET Names,
         files' = Edited(files, gone, new), stuck' = Edited(stuck, {}, kept), UNCHANGED log,
         (Current' = (Current \ gone) \cup new /\ Stuck' = Stuck \cup kept) => AttemptFiles'
  PROVE  FilesInv'
<1>1. Current' = (Current \ gone) \cup new /\ Stuck' = Stuck \cup kept
  BY EditsAttempt DEF Current, Stuck
<1>2. OfAttempts(files)' /\ OfAttempts(stuck)'
  BY EditsAttempt DEF OfAttempts
<1>3. \A n \in 1..Len(log) :
        NamesOf(files', n) = NamesOf(files, n) /\ NamesOf(stuck', n) = NamesOf(stuck, n)
  BY EditsAttempt
<1>4. LeftBehind'
  BY <1>3 DEF FilesInv, LeftBehind
<1> QED
  BY <1>1, <1>2, <1>4 DEF FilesInv

(* What earlier attempts left is what it was, when one more has ended.     *)
LEMMA LogAppended ==
  ASSUME CallsInv, FilesInv, NEW key \in Bootstraps \cup {NoJob}, NEW result \in Results,
         log' = Append(log, [key |-> key, result |-> result]), pc' = "idle",
         OfAttempts(files'), OfAttempts(stuck'),
         MayLeave(key, result, NamesOf(files', Len(log) + 1), NamesOf(stuck', Len(log) + 1)),
         \A n \in 1..Len(log) :
           MayLeave(log[n].key, log[n].result, NamesOf(files', n), NamesOf(stuck', n))
  PROVE  FilesInv'
<1> DEFINE entry == [key |-> key, result |-> result]
           T == [key : Bootstraps \cup {NoJob}, result : Results]
<1>1. entry \in T /\ log \in Seq(T) /\ log' = Append(log, entry)
  BY DEF CallsInv, JobType
<1>2. entry.key = key /\ entry.result = result
  OBVIOUS
<1> HIDE DEF entry, T
<1>3. /\ Len(log) \in Nat /\ Len(log') = Len(log) + 1
      /\ \A n \in 1..Len(log) : log'[n] = log[n]
      /\ log'[Len(log) + 1] = entry
  BY <1>1
<1>4. ASSUME NEW n \in 1..Len(log')
      PROVE  MayLeave(log'[n].key, log'[n].result, NamesOf(files', n), NamesOf(stuck', n))
  <2>1. CASE n \in 1..Len(log)
    <3>1. log'[n] = log[n]
      BY <1>3, <2>1
    <3> QED
      BY <2>1, <3>1, Zenon
  <2>2. CASE n = Len(log) + 1
    BY <1>2, <1>3, <2>2
  <2> QED
    BY <1>3, <2>1, <2>2
<1>5. \A f \in files' \cup stuck' :
         f \in File /\ f.attempt <= Len(log') + 1 /\ f.attempt # Len(log') + 1
  BY <1>3 DEF OfAttempts, File
<1>6. Current' = {} /\ Stuck' = {}
  BY <1>5 DEF NamesOf, Current, Stuck
<1>7. OfAttempts(files)' /\ OfAttempts(stuck)'
  BY <1>5 DEF OfAttempts
<1> QED
  BY <1>4, <1>6, <1>7 DEF FilesInv, LeftBehind, AttemptFiles

(* An attempt ends, with the files it leaves. *)
LEMMA EndLeaves ==
  ASSUME CallsInv, FilesInv, NEW gone \in SUBSET Names, NEW new \in SUBSET Names,
         NEW kept \in SUBSET Names,
         pc # "idle", NEW result \in Results, End(result, Edited(files, gone, new)),
         stuck' = Edited(stuck, {}, kept),
         MayLeave(job.key, result, (Current \ gone) \cup new, Stuck \cup kept)
  PROVE  FilesInv'
<1>1. /\ files' = Edited(files, gone, new) /\ pc' = "idle"
      /\ job.key \in Bootstraps \cup {NoJob}
      /\ log' = Append(log, [key |-> job.key, result |-> result])
  BY DEF End, CallsInv, JobType, Job
<1>2. /\ OfAttempts(files') /\ OfAttempts(stuck')
      /\ NamesOf(files', Len(log) + 1) = (Current \ gone) \cup new
      /\ NamesOf(stuck', Len(log) + 1) = Stuck \cup kept
      /\ \A n \in 1..Len(log) :
           NamesOf(files', n) = NamesOf(files, n) /\ NamesOf(stuck', n) = NamesOf(stuck, n)
  BY <1>1, EditsAttempt
<1>3. MayLeave(job.key, result, NamesOf(files', Len(log) + 1), NamesOf(stuck', Len(log) + 1))
  BY <1>2, Zenon
<1>4. ASSUME NEW n \in 1..Len(log)
      PROVE  MayLeave(log[n].key, log[n].result, NamesOf(files', n), NamesOf(stuck', n))
  <2>1. MayLeave(log[n].key, log[n].result, NamesOf(files, n), NamesOf(stuck, n))
    BY DEF FilesInv, LeftBehind
  <2> QED
    BY <1>2, <2>1, Zenon
<1> QED
  BY <1>1, <1>2, <1>3, <1>4, LogAppended

(* A provider call that fails and removes a file, or tries to. *)
LEMMA FailRemovingLeaves ==
  ASSUME CallsInv, FilesInv, pc \in {"prepare", "credentials", "waiting"},
         NEW name \in Names, name \notin Stuck, FailRemoving(name),
         IF job.phase = "check" THEN Current \subseteq {name}
         ELSE name \in {"helm-temp", "credentials"} /\ Current \ {name} \subseteq
                {"crd", "index.yaml"} \cup Stuck
  PROVE  FilesInv'
<1>1. job.phase \in {"check", "fetch"} /\ Failure \in Results
  BY DEF CallsInv, JobType, Job, Failure, Results
<1>2. PICK rest \in Remains(name) :
        /\ End(Failure, (files \ {Mine(name)}) \cup rest)
        /\ stuck' = stuck \cup rest
  BY DEF FailRemoving
<1>3. PICK kept \in SUBSET {name} :
        /\ kept \subseteq Current
        /\ (files \ {Mine(name)}) \cup rest = Edited(files, {name} \ kept, {})
        /\ stuck \cup rest = Edited(stuck, {}, kept)
        /\ rest = {} <=> kept = {}
  BY RemainsNames
<1>4. /\ End(Failure, Edited(files, {name} \ kept, {}))
      /\ stuck' = Edited(stuck, {}, kept)
  BY <1>2, <1>3
<1>5. MayLeave(job.key, Failure, (Current \ ({name} \ kept)) \cup {}, Stuck \cup kept)
  <2>1. CASE job.phase = "check"
    BY <1>3, <2>1 DEF FilesInv, AttemptFiles, MayLeave, Failure, Kind, HasRef
  <2>2. CASE job.phase = "fetch"
    BY <1>3, <2>2 DEF FilesInv, AttemptFiles, MayLeave, Failure, Kind, HasRef
  <2> QED
    BY <1>1, <2>1, <2>2
<1>6. kept \in SUBSET Names /\ {name} \ kept \in SUBSET Names /\ {} \in SUBSET Names
  OBVIOUS
<1>7. pc # "idle"
  OBVIOUS
<1> QED
  BY <1>1, <1>4, <1>5, <1>6, <1>7, EndLeaves

LEMMA FailLeaves ==
  ASSUME CallsInv, FilesInv, pc \in {"prepare", "waiting"}, CallFails
  PROVE  FilesInv'
<1> DEFINE name == IF job.phase = "check" THEN "crd-url" ELSE "helm-temp"
<1>1. name \in Names /\ name \notin Stuck /\ FailRemoving(name)
  BY DEF CallFails, Names, FilesInv, AttemptFiles, CallsInv, JobType, Job
<1>2. IF job.phase = "check" THEN Current \subseteq {name}
      ELSE name \in {"helm-temp", "credentials"} /\ Current \ {name} \subseteq
             {"crd", "index.yaml"} \cup Stuck
  BY DEF FilesInv, AttemptFiles, CallsInv, JobType, Job
<1> HIDE DEF name
<1> QED
  BY <1>1, <1>2, FailRemovingLeaves

(* A provider call that has its answer. *)
LEMMA AnswerLeaves ==
  ASSUME CallsInv, FilesInv, pc \in {"prepare", "waiting"}, Answered
  PROVE  FilesInv'
<1> DEFINE index == IF Kind = "helm-http" THEN {"index.yaml"} ELSE {}
<1>1. job.phase \in {"check", "fetch"}
  BY DEF CallsInv, JobType, Job
<1>2. stuck' = Edited(stuck, {}, {})
  BY StuckStays DEF Answered
<1>3. CASE job.phase = "check"
  <2>1. (files \ {Mine("crd-url")})
           \cup (IF Kind = "helm-http" THEN {Mine("index.yaml")} ELSE {})
          = Edited(files, {"crd-url"}, index)
    BY DEF Edited
  <2>2. Checked(Edited(files, {"crd-url"}, index))
    BY <1>3, <2>1 DEF Answered
  <2>3. Current \ {"crd-url"} = {} /\ Stuck = {}
    BY <1>3 DEF FilesInv, AttemptFiles
  <2>4. CASE \E result \in {"nothing new", "check failed", "no directory"} :
                End(result, Edited(files, {"crd-url"}, index))
    <3>1. PICK result \in {"nothing new", "check failed", "no directory"} :
                End(result, Edited(files, {"crd-url"}, index))
      BY <2>4
    <3>2. MayLeave(job.key, result, (Current \ {"crd-url"}) \cup index, Stuck \cup {})
      BY <2>3 DEF MayLeave, Kind
    <3> QED
      BY <1>2, <3>1, <3>2, EndLeaves DEF Names, Results
  <2>5. CASE /\ pc' = "prepare"
             /\ job' = [job EXCEPT !.phase = "fetch", !.left = 0]
             /\ files' = Edited(files, {"crd-url"}, index) \cup {Mine("crd")}
             /\ UNCHANGED <<bundle, log>>
    <3>1. files' = Edited(files, {"crd-url"}, index \cup {"crd"})
      BY <2>5 DEF Edited
    <3>2. job'.phase = "fetch" /\ job'.key = job.key
      BY <2>5 DEF CallsInv, JobType, Job
    <3>3. ASSUME Current' = (Current \ {"crd-url"}) \cup (index \cup {"crd"}),
                 Stuck' = Stuck \cup {}
          PROVE  AttemptFiles'
      BY <2>3, <2>5, <3>2, <3>3 DEF AttemptFiles, Kind
    <3> QED
      BY <1>2, <2>5, <3>1, <3>3, EditKeeps DEF Names
  <2> QED
    BY <2>2, <2>4, <2>5 DEF Checked
<1>4. CASE job.phase = "fetch"
  <2>1. files' = Edited(files, {"helm-temp"}, {}) /\ pc' = "working" /\ UNCHANGED <<job, log>>
    BY <1>4 DEF Answered, FetchedChart, Edited
  <2>2. ASSUME Current' = (Current \ {"helm-temp"}) \cup {}, Stuck' = Stuck \cup {}
        PROVE  AttemptFiles'
    BY <1>4, <2>1, <2>2 DEF FilesInv, AttemptFiles, Kind, HasRef
  <2> QED
    BY <1>2, <2>1, <2>2, EditKeeps DEF Names
<1> QED
  BY <1>1, <1>3, <1>4

(* The process dies: what it had on disk stays. *)
LEMMA CrashLeaves ==
  ASSUME CallsInv, FilesInv, Crash
  PROVE  FilesInv'
<1> DEFINE key == IF pc = "idle" THEN NoJob ELSE job.key
<1>1. /\ key \in Bootstraps \cup {NoJob} /\ "crashed" \in Results
      /\ log' = Append(log, [key |-> key, result |-> "crashed"])
  BY DEF CallsInv, JobType, Job, Crash, Results
<1>2. /\ files' = {f \in files : f.name # "connection"} /\ stuck' = stuck /\ pc' = "idle"
  BY DEF Crash
<1>3. \A n : /\ NamesOf(files', n) = NamesOf(files, n) \ {"connection"}
            /\ NamesOf(stuck', n) = NamesOf(stuck, n)
  BY <1>2 DEF NamesOf
<1>4. OfAttempts(files') /\ OfAttempts(stuck')
  BY <1>2 DEF FilesInv, OfAttempts
<1>5. MayLeave(key, "crashed", NamesOf(files', Len(log) + 1), NamesOf(stuck', Len(log) + 1))
  <2>1. NamesOf(files', Len(log) + 1) \subseteq Current
    BY <1>3 DEF Current
  <2> QED
    BY <2>1 DEF MayLeave, FilesInv, AttemptFiles, Kind, HasRef
<1>6. ASSUME NEW n \in 1..Len(log)
      PROVE  MayLeave(log[n].key, log[n].result, NamesOf(files', n), NamesOf(stuck', n))
  <2>1. MayLeave(log[n].key, log[n].result, NamesOf(files, n), NamesOf(stuck, n))
    BY DEF FilesInv, LeftBehind
  <2> QED
    BY <1>3, <2>1 DEF MayLeave
<1> HIDE DEF key
<1> QED
  BY <1>1, <1>2, <1>4, <1>5, <1>6, LogAppended

LEMMA FilesStep ==
  ASSUME CallsInv, FilesInv, [Next]_vars
  PROVE  FilesInv'
<1> USE StuckStays DEF Names
<1>1. ASSUME NEW b \in Bootstraps, Take(b) PROVE FilesInv'
  <2> DEFINE new == IF KindOf[b] = "url" THEN {"crd-url"} ELSE {}
  <2>1. files' = Edited(files, {}, new) /\ stuck' = Edited(stuck, {}, {})
    BY <1>1 DEF Take, Edited, Mine
  <2>2. /\ pc = "idle" /\ pc' = "prepare" /\ UNCHANGED log
        /\ job'.key = b /\ job'.phase = "check"
    BY <1>1 DEF Take
  <2>3. ASSUME Current' = (Current \ {}) \cup new, Stuck' = Stuck \cup {} PROVE AttemptFiles'
    BY <2>2, <2>3 DEF FilesInv, AttemptFiles, Kind
  <2> QED
    BY <2>1, <2>2, <2>3, EditKeeps
<1>2. CASE Refuse
  BY <1>2, FailLeaves DEF Refuse
<1>3. CASE ReadCredentials \/ SaveCredentials
  <2>1. /\ pc = "prepare" /\ pc' = "credentials" /\ Kind = "helm-oci" /\ HasRef
        /\ Config = (IF job.phase = "check" THEN "config.json" ELSE "credentials")
        /\ UNCHANGED <<job, log>>
    BY <1>3 DEF ReadCredentials, SaveCredentials, MakesConfig, Config
  <2>2. files' = Edited(files, {}, {Config}) /\ stuck' = Edited(stuck, {}, {})
    BY <1>3 DEF ReadCredentials, SaveCredentials, MakesConfig, Edited
  <2>3. ASSUME Current' = (Current \ {}) \cup {Config}, Stuck' = Stuck \cup {}
        PROVE  AttemptFiles'
    BY <2>1, <2>3 DEF FilesInv, AttemptFiles, Kind, HasRef
  <2>4. {Config} \in SUBSET Names
    BY <2>1
  <2> HIDE DEF Names
  <2> QED
    BY <2>1, <2>2, <2>3, <2>4, EditKeeps
<1>4. CASE Send
  <2> DEFINE new  == IF Downloading THEN {"helm-temp"} ELSE {}
  <2>1. files' = Edited(files, {}, new) /\ stuck' = Edited(stuck, {}, {})
    BY <1>4 DEF Send, Edited
  <2>2. /\ pc = "prepare" /\ pc' = "waiting" /\ UNCHANGED log
        /\ job'.key = job.key /\ job'.phase = job.phase
    BY <1>4 DEF Send, Request, CallsInv, JobType, Job
  <2>3. ASSUME Current' = (Current \ {}) \cup new, Stuck' = Stuck \cup {} PROVE AttemptFiles'
    BY <2>2, <2>3 DEF FilesInv, AttemptFiles, Kind, HasRef, Downloading
  <2> QED
    BY <2>1, <2>2, <2>3, EditKeeps
<1>5. CASE SendAuthorised
  <2> DEFINE new  == IF Downloading THEN {"helm-temp"} ELSE {}
  <2>1. PICK rest \in IF job.phase = "check" THEN {{}} ELSE Remains(Config) :
          /\ files' = (files \ {Mine(Config)}) \cup rest
                         \cup IF Downloading THEN {Mine("helm-temp")} ELSE {}
          /\ stuck' = stuck \cup rest
    BY <1>5 DEF SendAuthorised
  <2>2. Config \in Names
    BY DEF Config
  <2>3. PICK kept \in SUBSET {Config} :
          /\ kept \subseteq Current
          /\ (files \ {Mine(Config)}) \cup rest = Edited(files, {Config} \ kept, {})
          /\ stuck \cup rest = Edited(stuck, {}, kept)
          /\ rest = {} <=> kept = {}
    <3>1. rest \in Remains(Config)
      BY <2>1 DEF Remains
    <3> QED
      BY <2>2, <3>1, RemainsNames
  <2>4. files' = Edited(files, {Config} \ kept, new) /\ stuck' = Edited(stuck, {}, kept)
    BY <2>1, <2>3 DEF Edited
  <2>5. /\ pc = "credentials" /\ pc' = "waiting" /\ UNCHANGED log
        /\ job'.key = job.key /\ job'.phase = job.phase
    BY <1>5 DEF SendAuthorised, Request, CallsInv, JobType, Job
  <2>6. job.phase = "check" => kept = {}
    BY <2>1, <2>3
  <2>7. ASSUME Current' = (Current \ ({Config} \ kept)) \cup new, Stuck' = Stuck \cup kept
        PROVE  AttemptFiles'
    BY <2>3, <2>5, <2>6, <2>7 DEF FilesInv, AttemptFiles, Kind, HasRef, Downloading, Config
  <2> QED
    BY <2>2, <2>4, <2>5, <2>7, EditKeeps
<1>6. CASE CredentialsFail
  <2>1. /\ pc = "credentials" /\ FailRemoving(Config)
        /\ Config \in Names /\ Config \notin Stuck
    BY <1>6 DEF CredentialsFail, Config, FilesInv, AttemptFiles, CallsInv, JobType, Job
  <2>2. IF job.phase = "check" THEN Current \subseteq {Config}
        ELSE Config \in {"helm-temp", "credentials"} /\ Current \ {Config} \subseteq
               {"crd", "index.yaml"} \cup Stuck
    BY <2>1 DEF Config, FilesInv, AttemptFiles, CallsInv, JobType, Job, Kind
  <2> QED
    BY <2>1, <2>2, FailRemovingLeaves
<1>7. CASE ReadConfigMap
  BY <1>7, AnswerLeaves, FailLeaves DEF ReadConfigMap
<1>8. CASE NextRequest /\ Respond
  <2>1. /\ files' = Edited(files, {}, {}) /\ stuck' = Edited(stuck, {}, {})
        /\ UNCHANGED <<pc, log>>
    BY <1>8 DEF NextRequest, Edited
  <2>2. job'.key = job.key /\ job'.phase = job.phase
    BY <1>8 DEF NextRequest, Respond, CallsInv, JobType, Job
  <2>3. ASSUME Current' = (Current \ {}) \cup {}, Stuck' = Stuck \cup {} PROVE AttemptFiles'
    BY <2>1, <2>2, <2>3 DEF FilesInv, AttemptFiles, Kind, HasRef
  <2> QED
    BY <2>1, <2>3, EditKeeps
<1>9. CASE Respond /\ ~NextRequest
  <2>1. CASE Rejected
    <3>1. End("check failed", Edited(files, {}, {"connection"})) /\ stuck' = Edited(stuck, {}, {})
      BY <2>1 DEF Rejected, Edited
    <3>2. MayLeave(job.key, "check failed", (Current \ {}) \cup {"connection"}, Stuck \cup {})
      BY <1>9, <2>1 DEF Respond, Rejected, FilesInv, AttemptFiles, MayLeave, Kind
    <3> QED
      BY <1>9, <3>1, <3>2, EndLeaves DEF Respond, Results
  <2> QED
    BY <1>9, <2>1, AnswerLeaves, FailLeaves DEF Respond
<1>10. CASE Expire
  <2>1. CASE /\ job.phase = "check" /\ Kind = "helm-http" /\ UNCHANGED stuck
             /\ End("check failed", files \cup {Mine("index.yaml")})
    <3>1. End("check failed", Edited(files, {}, {"index.yaml"})) /\ stuck' = Edited(stuck, {}, {})
      BY <2>1 DEF Edited
    <3>2. MayLeave(job.key, "check failed", (Current \ {}) \cup {"index.yaml"}, Stuck \cup {})
      BY <1>10, <2>1 DEF Expire, FilesInv, AttemptFiles, MayLeave, Kind
    <3> QED
      BY <1>10, <3>1, <3>2, EndLeaves DEF Expire, Results
  <2> QED
    BY <1>10, <2>1, FailLeaves DEF Expire
<1>11. CASE Finish
  <2>1. pc = "working"
    BY <1>11 DEF Finish
  <2>2. PICK rest \in Remains("crd") :
          /\ End(IF rest = {} THEN "done" ELSE "not removed", (files \ {Mine("crd")}) \cup rest)
          /\ stuck' = stuck \cup rest
    BY <1>11 DEF Finish
  <2>3. PICK kept \in SUBSET {"crd"} :
          /\ kept \subseteq Current
          /\ (files \ {Mine("crd")}) \cup rest = Edited(files, {"crd"} \ kept, {})
          /\ stuck \cup rest = Edited(stuck, {}, kept)
          /\ rest = {} <=> kept = {}
    BY RemainsNames
  <2> DEFINE result == IF rest = {} THEN "done" ELSE "not removed"
  <2>4. End(result, Edited(files, {"crd"} \ kept, {})) /\ stuck' = Edited(stuck, {}, kept)
    BY <2>2, <2>3
  <2>5. MayLeave(job.key, result, (Current \ ({"crd"} \ kept)) \cup {}, Stuck \cup kept)
    BY <2>1, <2>3 DEF FilesInv, AttemptFiles, MayLeave, Kind, HasRef
  <2>6. result \in Results
    BY DEF Results
  <2> HIDE DEF result
  <2> QED
    BY <2>1, <2>4, <2>5, <2>6, EndLeaves
<1>12. CASE Crash
  BY <1>12, CrashLeaves
<1>13. CASE UNCHANGED vars \/ \E b \in SecretRef : EditSecret(b)
  BY <1>13 DEF vars, EditSecret, FilesInv, OfAttempts, AttemptFiles, Current, Stuck, LeftBehind,
          Kind, HasRef
<1> QED
  BY <1>1, <1>2, <1>3, <1>4, <1>5, <1>6, <1>7, <1>8, <1>9, <1>10, <1>11, <1>12, <1>13
     DEF Next, Worker

LEMMA FilesKnown == Spec => []FilesInv
<1>1. Init => FilesInv
  <2> SUFFICES ASSUME Init PROVE FilesInv
    OBVIOUS
  <2>1. files = {} /\ stuck = {} /\ log = <<>> /\ pc = "idle"
    BY DEF Init
  <2>2. LeftBehind
    BY <2>1 DEF LeftBehind
  <2>3. Current = {} /\ Stuck = {}
    BY <2>1 DEF Current, Stuck, NamesOf
  <2> QED
    BY <2>1, <2>2, <2>3 DEF FilesInv, OfAttempts, AttemptFiles
<1> QED
  BY <1>1, FilesStep, CallsKnown, PTL DEF Spec

(* Whatever an attempt leaves behind is its own directory after a failed   *)
(* fetch, a chart index, a connection, what could not be removed, or what  *)
(* a crash interrupted; and unless what could not be removed are the       *)
(* credentials for a registry, the attempt has failed.                     *)
THEOREM LeftoversAreKnown == Spec => []LeftBehind
<1>1. FilesInv => LeftBehind
  BY DEF FilesInv
<1> QED
  BY <1>1, FilesKnown, PTL

-----------------------------------------------------------------------------
(* The connections left open.                                              *)

Connections == {f \in files : f.name = "connection"}

(* Nothing but a rejected request leaves one. *)
LEMMA NoNewConnections ==
  ASSUME CallsInv, [Next]_vars, ~(Respond /\ Rejected)
  PROVE  Connections' \subseteq Connections
<1>1. \A x : Mine(x).name = x
  BY DEF Mine
<1>2. ASSUME NEW b \in Bootstraps, Take(b) PROVE Connections' \subseteq Connections
  BY <1>2 DEF Take, Connections
<1>3. CASE CallFails
  BY <1>1, <1>3 DEF CallFails, FailRemoving, Remains, End, Connections
<1>4. CASE Answered
  BY <1>1, <1>4 DEF Answered, Checked, FetchedChart, End, Connections
<1>5. CASE ReadCredentials \/ SaveCredentials \/ Send \/ SendAuthorised \/ CredentialsFail
  <2>1. \A name : \A rest \in Remains(name) : rest \subseteq files
    BY DEF Remains
  <2>2. Config # "connection"
    BY DEF Config
  <2>3. CASE SendAuthorised
    BY <1>1, <2>1, <2>2, <2>3 DEF SendAuthorised, Connections
  <2>4. CASE CredentialsFail
    BY <2>1, <2>4 DEF CredentialsFail, FailRemoving, End, Connections
  <2> QED
    BY <1>1, <1>5, <2>2, <2>3, <2>4
       DEF ReadCredentials, SaveCredentials, MakesConfig, Send, Connections
<1>6. CASE Refuse \/ ReadConfigMap
  BY <1>3, <1>4, <1>6 DEF Refuse, ReadConfigMap
<1>7. CASE Respond
  BY <1>3, <1>4, <1>7 DEF Respond, NextRequest, Connections
<1>8. CASE Expire
  BY <1>1, <1>3, <1>8 DEF Expire, End, Connections
<1>9. CASE Finish \/ Crash \/ UNCHANGED vars \/ \E b \in SecretRef : EditSecret(b)
  BY <1>1, <1>9 DEF Finish, Remains, Crash, vars, EditSecret, End, Connections
<1> QED
  BY <1>2, <1>5, <1>6, <1>7, <1>8, <1>9 DEF Next, Worker

(* The log only grows. *)
LEMMA LogGrows ==
  ASSUME CallsInv, [Next]_vars, ~Crash
  PROVE  \/ UNCHANGED log
         \/ \E e \in [key : Bootstraps, result : Results \ {"crashed"}] : log' = Append(log, e)
<1> DEFINE Grows == \E e \in [key : Bootstraps, result : Results \ {"crashed"}] :
                      log' = Append(log, e)
<1>1. ASSUME NEW result \in Results \ {"crashed"}, NEW left, pc # "idle", End(result, left)
      PROVE  Grows
  <2>1. [key |-> job.key, result |-> result] \in [key : Bootstraps, result : Results \ {"crashed"}]
    BY <1>1 DEF CallsInv, JobType, Job
  <2> QED
    BY <1>1, <2>1 DEF End
<1> HIDE DEF Grows
<1>2. ASSUME CallFails, pc # "idle" PROVE Grows
  BY <1>1, <1>2 DEF CallFails, FailRemoving, Failure, Results
<1>3. ASSUME Answered, pc # "idle" PROVE Grows \/ UNCHANGED log
  BY <1>1, <1>3 DEF Answered, Checked, FetchedChart, Results
<1>4. CASE \/ \E b \in Bootstraps : Take(b)
           \/ ReadCredentials \/ SaveCredentials \/ Send \/ SendAuthorised
           \/ UNCHANGED vars \/ \E b \in SecretRef : EditSecret(b)
  BY <1>4 DEF Take, ReadCredentials, SaveCredentials, MakesConfig, Send, SendAuthorised, vars,
          EditSecret
<1>5. ASSUME CredentialsFail PROVE Grows
  BY <1>1, <1>5 DEF CredentialsFail, FailRemoving, Failure, Results
<1>6. ASSUME Refuse \/ ReadConfigMap PROVE Grows \/ UNCHANGED log
  BY <1>2, <1>3, <1>6 DEF Refuse, ReadConfigMap
<1>7. ASSUME Respond PROVE Grows \/ UNCHANGED log
  <2>1. CASE Rejected
    BY <1>1, <1>7, <2>1 DEF Respond, Rejected, Results
  <2> QED
    BY <1>2, <1>3, <1>7, <2>1 DEF Respond, NextRequest
<1>8. ASSUME Expire PROVE Grows
  <2>1. CASE End("check failed", files \cup {Mine("index.yaml")})
    BY <1>1, <1>8, <2>1 DEF Expire, Results
  <2> QED
    BY <1>2, <1>8, <2>1 DEF Expire
<1>9. ASSUME Finish PROVE Grows
  BY <1>1, <1>9 DEF Finish, Results
<1> QED
  BY <1>4, <1>5, <1>6, <1>7, <1>8, <1>9 DEF Next, Worker, Grows

(* What a connection says of the log stays true as the log grows.          *)
LEMMA ConnectionsStay ==
  ASSUME CallsInv, ConnectionsKept, NEW e \in [key : Bootstraps, result : Results \ {"crashed"}],
         log' = Append(log, e), NEW f \in Connections
  PROVE  LET n == f.attempt IN
           /\ n \in 1..Len(log')
           /\ KindOf[log'[n].key] = "helm-http" /\ log'[n].result = "check failed"
           /\ \A m \in 1..Len(log') : log'[m].result = "crashed" => m < n
           /\ log'[n].key \notin SecretRef =>
                \A m \in {i \in 1..(n - 1) : log'[i].key # NoJob} :
                  AnonymousRelease(log'[m].key) => \E i \in m..n : log'[i].result = "crashed"
<1> DEFINE n == f.attempt
<1>1. log \in Seq([key : Bootstraps \cup {NoJob}, result : Results])
  BY DEF CallsInv, JobType
<1>2. /\ Len(log) \in Nat /\ Len(log') = Len(log) + 1
      /\ \A m \in 1..Len(log) : log'[m] = log[m]
      /\ log'[Len(log) + 1] = e
  <2>1. e \in [key : Bootstraps \cup {NoJob}, result : Results]
    OBVIOUS
  <2> QED
    BY <1>1, <2>1
<1>3. /\ n \in 1..Len(log)
      /\ KindOf[log[n].key] = "helm-http" /\ log[n].result = "check failed"
      /\ \A m \in 1..Len(log) : log[m].result = "crashed" => m < n
      /\ log[n].key \notin SecretRef =>
           \A m \in {i \in 1..(n - 1) : log[i].key # NoJob} :
             AnonymousRelease(log[m].key) => \E i \in m..n : log[i].result = "crashed"
  BY DEF ConnectionsKept, Connections
<1> HIDE DEF n
<1>4. /\ n \in 1..Len(log') /\ log'[n] = log[n]
      /\ \A i \in 1..n : i \in 1..Len(log) /\ log'[i] = log[i]
  <2>1. n \in 1..Len(log) /\ Len(log) \in Nat
    BY <1>2, <1>3, Zenon
  <2>2. \A i \in 1..n : i \in 1..Len(log)
    BY <2>1
  <2> QED
    BY <1>2, <2>1, <2>2
<1>5. ASSUME NEW m \in 1..Len(log'), log'[m].result = "crashed" PROVE m < n
  <2>1. m \in 1..Len(log)
    BY <1>2, <1>5
  <2> QED
    BY <1>2, <1>3, <1>5, <2>1
<1>6. ASSUME log'[n].key \notin SecretRef, NEW m \in {i \in 1..(n - 1) : log'[i].key # NoJob},
             AnonymousRelease(log'[m].key)
      PROVE  \E i \in m..n : log'[i].result = "crashed"
  <2>1. n \in Nat /\ m \in 1..(n - 1)
    BY <1>4, <1>6
  <2>2. m \in 1..n /\ n \in 1..n /\ \A i \in m..n : i \in 1..n
    BY <1>4, <2>1
  <2>3. log'[m] = log[m] /\ log'[n] = log[n]
    BY <1>4, <2>2
  <2>4. PICK i \in m..n : log[i].result = "crashed"
    BY <1>3, <1>6, <2>1, <2>3
  <2> QED
    BY <1>4, <2>4, <2>2
<1> QED
  BY <1>3, <1>4, <1>5, <1>6 DEF n

(* A rejected request leaves its own. *)
LEMMA RejectedKeeps ==
  ASSUME CallsInv, FilesInv, ConnectionsKept, Respond, Rejected,
         NEW f \in Connections' \ Connections
  PROVE  LET n == f.attempt IN
           /\ n \in 1..Len(log')
           /\ KindOf[log'[n].key] = "helm-http" /\ log'[n].result = "check failed"
           /\ \A m \in 1..Len(log') : log'[m].result = "crashed" => m < n
           /\ log'[n].key \notin SecretRef =>
                \A m \in {i \in 1..(n - 1) : log'[i].key # NoJob} :
                  AnonymousRelease(log'[m].key) => \E i \in m..n : log'[i].result = "crashed"
<1> DEFINE entry == [key |-> job.key, result |-> "check failed"]
           T == [key : Bootstraps \cup {NoJob}, result : Results]
           n == f.attempt
<1>1. f = Mine("connection") /\ pc = "waiting"
  BY DEF Respond, Rejected, End, Connections
<1>2. entry \in T /\ log \in Seq(T) /\ log' = Append(log, entry)
  BY <1>1 DEF Rejected, End, CallsInv, JobType, Job, Results
<1>3. entry.key = job.key /\ entry.result = "check failed" /\ n = Len(log) + 1
  BY <1>1 DEF Mine
<1> HIDE DEF entry, T, n
<1>4. /\ Len(log) \in Nat /\ Len(log') = Len(log) + 1
      /\ \A m \in 1..Len(log) : log'[m] = log[m]
      /\ log'[Len(log) + 1] = entry
  BY <1>2
<1>5. n = Len(log) + 1 /\ log'[n] = entry
  BY <1>4, <1>3
<1>6. n \in 1..Len(log') /\ \A m \in 1..Len(log') : m < n \/ m = n
  BY <1>4, <1>5
<1>7. KindOf[log'[n].key] = "helm-http" /\ log'[n].result = "check failed"
  BY <1>5, <1>3 DEF Rejected, Kind
<1>8. \A m \in 1..Len(log') : log'[m].result = "crashed" => m < n
  BY <1>6, <1>7
<1>9. ASSUME job.key \notin SecretRef, NEW m \in {i \in 1..(n - 1) : log'[i].key # NoJob},
             AnonymousRelease(log'[m].key)
      PROVE  \E i \in m..n : log'[i].result = "crashed"
  <2>1. /\ m \in 1..Len(log) /\ log'[m] = log[m]
        /\ \A i \in m..Len(log) : i \in 1..Len(log) /\ i \in m..n
    BY <1>4, <1>9, <1>5
  <2>2. ~ReleaseTried
    BY <1>1, <1>9 DEF Rejected, CallsInv, TimeoutKnown, UsesDefault, Sent, HasRef, Kind
  <2>3. PICK i \in m..Len(log) : log[i].result = "crashed"
    BY <1>9, <2>1, <2>2 DEF ReleaseTried
  <2> QED
    BY <1>4, <2>1, <2>3
<1> QED
  BY <1>5, <1>6, <1>7, <1>8, <1>9, <1>3 DEF n

LEMMA ConnectionsStep ==
  ASSUME CallsInv, FilesInv, ConnectionsKept, [Next]_vars
  PROVE  ConnectionsKept'
<1> SUFFICES ASSUME NEW f \in Connections'
             PROVE  LET n == f.attempt IN
                      /\ n \in 1..Len(log')
                      /\ KindOf[log'[n].key] = "helm-http" /\ log'[n].result = "check failed"
                      /\ \A m \in 1..Len(log') : log'[m].result = "crashed" => m < n
                      /\ log'[n].key \notin SecretRef =>
                           \A m \in {i \in 1..(n - 1) : log'[i].key # NoJob} :
                             AnonymousRelease(log'[m].key)
                               => \E i \in m..n : log'[i].result = "crashed"
  BY DEF ConnectionsKept, Connections
<1>1. CASE Crash
  BY <1>1 DEF Crash, Connections
<1>2. CASE ~Crash /\ f \in Connections
  <2>1. CASE UNCHANGED log
    BY <1>2, <2>1 DEF ConnectionsKept, Connections
  <2>2. CASE ~UNCHANGED log
    <3>1. PICK e \in [key : Bootstraps, result : Results \ {"crashed"}] : log' = Append(log, e)
      BY <1>2, <2>2, LogGrows
    <3> QED
      BY <1>2, <3>1, ConnectionsStay
  <2> QED
    BY <2>1, <2>2
<1>3. CASE f \notin Connections
  <2>1. Respond /\ Rejected
    BY <1>3, NoNewConnections
  <2> QED
    BY <1>3, <2>1, RejectedKeeps
<1> QED
  BY <1>1, <1>2, <1>3

(* Which connections can be left open, and that a timeout set by one       *)
(* provider spares those of another.                                       *)
THEOREM ConnectionsAreKnown == Spec => []ConnectionsKept
<1>1. Init => ConnectionsKept
  BY DEF Init, ConnectionsKept
<1> QED
  BY <1>1, ConnectionsStep, FilesKnown, CallsKnown, PTL DEF Spec

-----------------------------------------------------------------------------
(* The bundle, and the rest of the types.                                  *)

(* The bundle is that of the chart just fetched, and there is none before  *)
(* the fetch nor after the attempt.                                        *)
BundleKnown ==
  IF pc = "working"
  THEN \E chart \in Charts :
         bundle = IF Kind \in {"helm-oci", "helm-http"}
                  THEN CreateCrdYaml(Unpacked(Kind, chart)) ELSE <<>>
  ELSE bundle = <<>>

TypeRest ==
  /\ secrets \in [SecretRef -> SUBSET Keys]
  /\ pc = "idle" => job = NoJob

LEMMA UnpackedIsChart ==
  ASSUME NEW kind, NEW chart \in Charts
  PROVE  /\ Unpackable(Unpacked(kind, chart))
         /\ Unpacked(kind, chart) \subseteq (UNION Charts) \cup {Archive}
<1>1. Archive \in Seq(STRING) /\ Len(Archive) = 1
  BY ArchiveAssumption
<1>2. Archive # <<>>
  BY <1>1
<1>3. IsFiniteSet({Archive})
  BY FS_Singleton
<1>4. Unpackable({Archive})
  BY <1>1, <1>2, <1>3 DEF Unpackable
<1>5. Unpackable(chart) /\ chart \subseteq UNION Charts
  BY CallsAssumption DEF Unpackable
<1>6. Unpacked(kind, chart) = chart \/ Unpacked(kind, chart) = {Archive}
  BY DEF Unpacked
<1>7. Unpackable(Unpacked(kind, chart))
  BY <1>4, <1>5, <1>6, Zenon
<1>8. Unpacked(kind, chart) \subseteq (UNION Charts) \cup {Archive}
  BY <1>5, <1>6
<1> QED
  BY <1>7, <1>8

(* An archive lies in no crds folder. *)
LEMMA NothingAboveArchive == CrdsAbove({Archive}, Archive) = {}
<1>1. Archive \in Seq(STRING) /\ Len(Archive) = 1
  BY ArchiveAssumption
<1>2. Folders({Archive}) = {<<>>}
  <2>1. ASSUME NEW i \in 0..(Len(Archive) - 1) PROVE SubSeq(Archive, 1, i) = <<>>
    <3>1. i = 0
      BY <1>1
    <3> QED
      BY <1>1, <3>1, SubSeqEmpty
  <2> QED
    BY <2>1 DEF Folders
<1> QED
  BY <1>2 DEF CrdsAbove, IsCrds

LEMMA BundleStep ==
  ASSUME CallsInv, BundleKnown, TypeRest, [Next]_vars
  PROVE  BundleKnown' /\ TypeRest'
<1>1. ASSUME NEW result, NEW left, End(result, left), UNCHANGED secrets
      PROVE  BundleKnown' /\ TypeRest'
  BY <1>1 DEF End, BundleKnown, TypeRest
<1>2. ASSUME CallFails, UNCHANGED secrets PROVE BundleKnown' /\ TypeRest'
  BY <1>1, <1>2 DEF CallFails, FailRemoving
<1>3. ASSUME Answered, UNCHANGED secrets, pc # "working", pc # "idle"
      PROVE  BundleKnown' /\ TypeRest'
  <2>1. CASE job.phase = "check"
    <3>1. CASE pc' = "prepare" /\ UNCHANGED bundle
      BY <1>3, <3>1 DEF BundleKnown, TypeRest
    <3> QED
      BY <1>1, <1>3, <2>1, <3>1 DEF Answered, Checked
  <2>2. CASE job.phase # "check"
    <3>1. PICK chart \in Charts : FetchedChart(chart)
      BY <1>3, <2>2 DEF Answered
    <3>2. /\ pc' = "working" /\ Kind' = Kind
          /\ bundle' = IF Kind \in {"helm-oci", "helm-http"}
                       THEN CreateCrdYaml(Unpacked(Kind, chart)) ELSE <<>>
      BY <3>1 DEF FetchedChart, Kind
    <3> QED
      BY <1>3, <3>2 DEF BundleKnown, TypeRest
  <2> QED
    BY <2>1, <2>2
<1>4. CASE \/ \E b \in Bootstraps : Take(b)
           \/ ReadCredentials \/ SaveCredentials \/ Send \/ SendAuthorised
  BY <1>4 DEF Take, ReadCredentials, SaveCredentials, MakesConfig, Send, SendAuthorised, Request,
          BundleKnown, TypeRest
<1>5. CASE Refuse \/ CredentialsFail \/ Finish
  BY <1>1, <1>2, <1>5 DEF Refuse, CredentialsFail, FailRemoving, Finish
<1>6. CASE ReadConfigMap
  BY <1>2, <1>3, <1>6 DEF ReadConfigMap
<1>7. CASE Respond
  <2>1. CASE NextRequest
    BY <1>7, <2>1 DEF Respond, NextRequest, BundleKnown, TypeRest
  <2>2. CASE Rejected
    BY <1>1, <1>7, <2>2 DEF Respond, Rejected
  <2> QED
    BY <1>2, <1>3, <1>7, <2>1, <2>2 DEF Respond
<1>8. CASE Expire
  BY <1>1, <1>2, <1>8 DEF Expire
<1>9. CASE Crash
  BY <1>9 DEF Crash, BundleKnown, TypeRest
<1>10. ASSUME NEW b \in SecretRef, EditSecret(b) PROVE BundleKnown' /\ TypeRest'
  <2>1. secrets' \in [SecretRef -> SUBSET Keys]
    BY <1>10 DEF EditSecret, TypeRest, Keys
  <2> QED
    BY <1>10, <2>1 DEF EditSecret, BundleKnown, TypeRest, Kind
<1>11. CASE UNCHANGED vars
  BY <1>11 DEF vars, BundleKnown, TypeRest, Kind
<1> QED
  BY <1>4, <1>5, <1>6, <1>7, <1>8, <1>9, <1>10, <1>11 DEF Next, Worker

LEMMA BundleAlwaysKnown == Spec => [](BundleKnown /\ TypeRest)
<1>1. Init => BundleKnown /\ TypeRest
  BY DEF Init, BundleKnown, TypeRest
<1> QED
  BY <1>1, BundleStep, CallsKnown, PTL DEF Spec

(* What the walk leaves for each file of the chart it was given.           *)
LEMMA BundleEntries ==
  ASSUME BundleKnown
  PROVE  \E chart \in Charts :
           LET found == Unpacked(Kind, chart) IN
           /\ DOMAIN bundle \subseteq found
           /\ \A f \in DOMAIN bundle : bundle[f] = CrdsAbove(found, f)
<1>1. CASE bundle = <<>>
  BY <1>1, CallsAssumption
<1>2. CASE bundle # <<>>
  <2>1. PICK chart \in Charts : bundle = CreateCrdYaml(Unpacked(Kind, chart))
    BY <1>2, Zenon DEF BundleKnown
  <2>2. bundle = [f \in Unpacked(Kind, chart) |-> CrdsAbove(Unpacked(Kind, chart), f)]
    BY <2>1, UnpackedIsChart, BundledFiles
  <2> HIDE DEF Unpacked, CrdsAbove
  <2> QED
    BY <2>2
<1> QED
  BY <1>1, <1>2

(* The types of everything the calls hold, the bundle included: it is      *)
(* filed under folders above each file.                                    *)
THEOREM TypeCorrect == Spec => []TypeOK
<1>1. ASSUME CallsInv, FilesInv, BundleKnown, TypeRest PROVE TypeOK
  <2>1. PICK chart \in Charts :
          /\ DOMAIN bundle \subseteq Unpacked(Kind, chart)
          /\ \A f \in DOMAIN bundle : bundle[f] = CrdsAbove(Unpacked(Kind, chart), f)
    BY <1>1, BundleEntries
  <2>2. DOMAIN bundle \subseteq (UNION Charts) \cup {Archive}
    BY <2>1, UnpackedIsChart
  <2>3. ASSUME NEW f \in DOMAIN bundle PROVE bundle[f] \subseteq Folders({f})
    BY <2>1, <2>3, UnpackedIsChart, AboveIsOwn
  <2>4. job \in IF pc = "idle" THEN {NoJob} ELSE Job
    BY <1>1 DEF CallsInv, JobType, TypeRest
  <2> QED
    BY <1>1, <2>2, <2>3, <2>4 DEF TypeOK, CallsInv, JobType, FilesInv, OfAttempts, TypeRest
<1> QED
  BY <1>1, CallsKnown, FilesKnown, BundleAlwaysKnown, PTL

(* In every state the bundle is what the crds folders of the chart hold,   *)
(* each file as often as there are crds folders above it.                  *)
THEOREM BundlesMatch == Spec => []BundleMatchesChart
<1>1. ASSUME BundleKnown, NEW f \in DOMAIN bundle
      PROVE  Cardinality(bundle[f]) = IF Kind = "helm-oci" THEN TimesWritten(f) ELSE 0
  <2>1. PICK chart \in Charts :
          /\ DOMAIN bundle \subseteq Unpacked(Kind, chart)
          /\ \A g \in DOMAIN bundle : bundle[g] = CrdsAbove(Unpacked(Kind, chart), g)
    BY <1>1, BundleEntries
  <2>2. CASE Kind = "helm-oci"
    BY <1>1, <2>1, <2>2, UnpackedIsChart, TimesBundled
  <2>3. CASE Kind # "helm-oci"
    <3>1. f = Archive /\ bundle[f] = CrdsAbove({Archive}, Archive)
      BY <1>1, <2>1, <2>3 DEF Unpacked
    <3> QED
      BY <2>3, <3>1, NothingAboveArchive, FS_EmptySet
  <2> QED
    BY <2>2, <2>3
<1>2. BundleKnown => BundleMatchesChart
  BY <1>1 DEF BundleMatchesChart
<1> QED
  BY <1>2, BundleAlwaysKnown, PTL
=============================================================================
