------------------------------- MODULE Calls -------------------------------
(***************************************************************************)
(* What the provider calls of a reconciliation hold while they run: the    *)
(* HTTP client and its timeout, the credentials, and temporary files.      *)
(*                                                                         *)
(* One worker makes one attempt after another: HasUpdate, then FetchCRD,   *)
(* then the rest of Reconcile in one step.  Servers may fail or never      *)
(* answer, and a file may refuse to be removed.  What the calls return is  *)
(* the subject of module Sources.                                          *)
(***************************************************************************)
EXTENDS HelmChart

CONSTANTS
  Bootstraps,
  KindOf,       \* the kind of source of each
  SecretRef,    \* those whose source names a secret
  Charts,       \* the charts an OCI registry may serve
  NoJob,
  MaxAttempts, MaxCrashes, MaxEdits, MaxStuck   \* bounds

Kinds == {"helm-oci", "helm-http", "configmap", "gitlab", "github", "url"}
Keys  == {"token", "username", "password", ".dockerconfigjson"}

ASSUME CallsAssumption ==
  /\ KindOf \in [Bootstraps -> Kinds]
  /\ SecretRef \subseteq Bootstraps
  /\ NoJob \notin Bootstraps
  /\ Charts # {}
  /\ \A chart \in Charts :
       IsFiniteSet(chart) /\ \A f \in chart : f \in Seq(STRING) /\ f # <<>>
  /\ {MaxAttempts, MaxCrashes, MaxEdits, MaxStuck} \subseteq Nat

VARIABLES
  timeout,  \* whether http.DefaultClient, which the providers share, has one
  secrets,  \* the keys in the secret of each that names one
  files,    \* the temporary files on disk, and connections left open
  stuck,    \* those of the files a removal of which has failed
  bundle,   \* for which folders each file of the fetched chart is in crds.yaml
  log,      \* how the attempts so far have ended
  pc,       \* where the worker is
  job,      \* the attempt in progress
  used      \* how much of each bound the environment has used

vars == <<timeout, secrets, files, stuck, bundle, log, pc, job, used>>

Results == {"nothing new", "check failed", "no directory", "fetch failed",
            "done", "not removed", "crashed"}

(* Both "config.json" and "credentials" are called config.json on disk;    *)
(* only the latter has the registry's credentials in it.                   *)
File == [name : {"crd", "crd-url", "helm-temp", "index.yaml", "config.json", "credentials",
                 "connection"},
         attempt : Nat]

(* Of an attempt: the requests still to be made in this phase after the    *)
(* one in flight, and whether the client that made that one has a timeout. *)
Job == [key : Bootstraps, phase : {"check", "fetch"}, left : 0..1, bounded : BOOLEAN]

TypeOK ==
  /\ timeout \in BOOLEAN
  /\ secrets \in [SecretRef -> SUBSET Keys]
  /\ files \subseteq File /\ stuck \subseteq File
  /\ DOMAIN bundle \subseteq (UNION Charts) \cup {Archive}
  /\ \A f \in DOMAIN bundle : bundle[f] \subseteq Folders({f})
  /\ log \in Seq([key : Bootstraps \cup {NoJob}, result : Results])
  /\ pc \in {"idle", "prepare", "credentials", "waiting", "working"}
  /\ job \in IF pc = "idle" THEN {NoJob} ELSE Job

Init ==
  /\ timeout = FALSE
  /\ secrets = [b \in SecretRef |-> Keys]
  /\ files = {} /\ stuck = {}
  /\ bundle = <<>>
  /\ log = <<>>
  /\ pc = "idle"
  /\ job = NoJob
  /\ used = [crashes |-> 0, edits |-> 0]

-----------------------------------------------------------------------------
Kind == KindOf[job.key]
HasRef == job.key \in SecretRef
Released == Kind \in {"github", "gitlab"}

(* A file of the attempt in progress. *)
Mine(name) == [name |-> name, attempt |-> Len(log) + 1]

(* The keys of the secret a phase reads; each reads the secret anew.       *)
Required ==
  CASE Kind \in {"github", "gitlab", "url"} -> {"token"}
    [] Kind = "helm-oci"  -> {".dockerconfigjson"}
    [] Kind = "helm-http" -> IF job.phase = "check" THEN {"password"}
                                                    ELSE {"username", "password"}
    [] Kind = "configmap" -> {}

Refused == IF HasRef THEN ~(Required \subseteq secrets[job.key]) ELSE FALSE

End(result, left) ==
  /\ log' = Append(log, [key |-> job.key, result |-> result])
  /\ pc' = "idle"
  /\ job' = NoJob
  /\ files' = left
  /\ bundle' = <<>>

(* What may remain of a file the attempt removes: nothing, or the file if  *)
(* the removal fails.                                                      *)
Remains(name) ==
  {rest \in SUBSET (files \cap {Mine(name)}) : rest = {} \/ Cardinality(stuck) < MaxStuck}

Failure == IF job.phase = "check" THEN "check failed" ELSE "fetch failed"

FailRemoving(name) ==
  \E rest \in Remains(name) :
    /\ End(Failure, (files \ {Mine(name)}) \cup rest)
    /\ stuck' = stuck \cup rest

(* A slip: what was created for the call is removed only if it succeeds. *)
MutCallFailsKeeps == End(Failure, files) /\ UNCHANGED stuck

(* An error or a panic of a provider runs the defers registered so far.    *)
(* That of Reconcile is registered after FetchCRD, so "crd" stays.  A call *)
(* that went well fails too, if its own defer does.                        *)
CallFails == FailRemoving(IF job.phase = "check" THEN "crd-url" ELSE "helm-temp")

Take(b) ==
  /\ pc = "idle"
  /\ Len(log) - used.crashes < MaxAttempts
  /\ pc' = "prepare"
  /\ job' = [key |-> b, phase |-> "check", left |-> 0, bounded |-> FALSE]
  /\ files' = IF KindOf[b] = "url" THEN files \cup {[name |-> "crd-url", attempt |-> Len(log) + 1]}
                                   ELSE files
  /\ UNCHANGED <<timeout, secrets, stuck, bundle, log, used>>

Refuse ==
  /\ pc = "prepare"
  /\ Refused
  /\ CallFails
  /\ UNCHANGED <<timeout, secrets, used>>

Config == IF job.phase = "check" THEN "config.json" ELSE "credentials"

MakesConfig(phase) ==
  /\ pc = "prepare" /\ job.phase = phase
  /\ Kind = "helm-oci" /\ HasRef /\ ~Refused
  /\ pc' = "credentials"
  /\ files' = files \cup {Mine(Config)}
  /\ UNCHANGED <<timeout, secrets, stuck, bundle, log, job, used>>

(* The check reads the credentials of a registry from the secret, and the  *)
(* file it makes for them stays empty.                                     *)
ReadCredentials == MakesConfig("check")

(* The fetch saves them, for Helm's own client. *)
SaveCredentials == MakesConfig("fetch")

(* Whether the client of an authenticated request has a timeout.  oauth2   *)
(* may copy the one of the default client; Helm's clients have their own.  *)
OwnTimeout ==
  CASE Released /\ job.phase = "check" -> {TRUE}
    [] Kind = "helm-oci" \/ (Kind = "helm-http" /\ job.phase = "fetch") -> BOOLEAN
    [] OTHER -> {FALSE, timeout}

UsesDefault == /\ ~HasRef
               /\ Kind # "helm-oci"
               /\ ~(Kind = "helm-http" /\ job.phase = "fetch")

(* A slip: the timeout is set on a copy of the client, for the check only. *)
MutRequestCopies ==
  /\ pc' = "waiting"
  /\ timeout' = timeout
  /\ \E bounded \in IF UsesDefault THEN {timeout \/ (Released /\ job.phase = "check")}
                                    ELSE OwnTimeout :
       job' = [job EXCEPT !.bounded = bounded,
                          !.left = IF Kind = "gitlab" /\ job.phase = "fetch" THEN 1 ELSE 0]

(* A release check sets the timeout of whatever client it uses.            *)
Request ==
  /\ pc' = "waiting"
  /\ timeout' = (timeout \/ (UsesDefault /\ Released /\ job.phase = "check"))
  /\ \E bounded \in IF UsesDefault THEN {timeout'} ELSE OwnTimeout :
       job' = [job EXCEPT !.bounded = bounded,
                          !.left = IF Kind = "gitlab" /\ job.phase = "fetch" THEN 1 ELSE 0]

Downloading == Kind \in {"helm-oci", "helm-http"} /\ job.phase = "fetch"

Send ==
  /\ pc = "prepare"
  /\ Kind # "configmap" /\ ~Refused
  /\ ~(Kind = "helm-oci" /\ HasRef)
  /\ Request
  /\ files' = IF Downloading THEN files \cup {Mine("helm-temp")} ELSE files
  /\ UNCHANGED <<secrets, stuck, bundle, log, used>>

(* The file is removed before the request that needs the credentials.  If  *)
(* that fails the check does too; the fetch, whose result has no name for  *)
(* the defer to set, goes on and the file stays.                           *)
SendAuthorised ==
  /\ pc = "credentials"
  /\ Request
  /\ \E rest \in IF job.phase = "check" THEN {{}} ELSE Remains(Config) :
       /\ files' = (files \ {Mine(Config)}) \cup rest
                      \cup IF Downloading THEN {Mine("helm-temp")} ELSE {}
       /\ stuck' = stuck \cup rest
  /\ UNCHANGED <<secrets, bundle, log, used>>

(* They may lack the host of the chart. *)
CredentialsFail ==
  /\ pc = "credentials"
  /\ FailRemoving(Config)
  /\ UNCHANGED <<timeout, secrets, used>>

-----------------------------------------------------------------------------
(* What happens when a phase has got its answer. *)

Checked(left) ==
  \/ End("nothing new", left)
  \/ End("check failed", left)
  \/ End("no directory", left)
  \/ /\ pc' = "prepare"
     /\ job' = [job EXCEPT !.phase = "fetch", !.left = 0]
     /\ files' = left \cup {Mine("crd")}
     /\ UNCHANGED <<bundle, log>>

FetchedChart(chart) ==
  /\ pc' = "working"
  /\ bundle' = IF Kind \in {"helm-oci", "helm-http"}
               THEN CreateCrdYaml(Unpacked(Kind, chart)) ELSE <<>>
  /\ files' = files \ {Mine("helm-temp")}
  /\ UNCHANGED <<job, log>>

(* The call returns well and its defer has removed what it made; where the *)
(* defer fails, CallFails has that answer.  The index of an HTTP repository *)
(* is copied to a file, which stays.                                       *)
Answered ==
  /\ IF job.phase = "check"
     THEN Checked((files \ {Mine("crd-url")})
                    \cup IF Kind = "helm-http" THEN {Mine("index.yaml")} ELSE {})
     ELSE \E chart \in Charts : FetchedChart(chart)
  /\ UNCHANGED stuck

(* The API server is assumed to answer. *)
ReadConfigMap ==
  /\ pc = "prepare"
  /\ Kind = "configmap"
  /\ Answered \/ CallFails
  /\ UNCHANGED <<timeout, secrets, used>>

(* A slip: there is always one more link to follow. *)
MutNextRequestEndless ==
  /\ job' = [job EXCEPT !.left = @ + 1]
  /\ UNCHANGED <<files, stuck, bundle, log, pc>>

(* GitLab asks for the release first, then for the asset it links to.      *)
NextRequest ==
  /\ job.left > 0
  /\ job' = [job EXCEPT !.left = @ - 1]
  /\ UNCHANGED <<files, stuck, bundle, log, pc>>

(* An answer that is no index is not read and not closed; a timeout, if    *)
(* there is one, closes it in the end.                                     *)
Rejected ==
  /\ job.phase = "check" /\ Kind = "helm-http" /\ ~job.bounded
  /\ End("check failed", files \cup {Mine("connection")})
  /\ UNCHANGED stuck

Respond ==
  /\ pc = "waiting"
  /\ NextRequest \/ Rejected \/ CallFails \/ (job.left = 0 /\ Answered)
  /\ UNCHANGED <<timeout, secrets, used>>

(* A slip: a request that ran into the timeout is sent again. *)
MutExpireRetries ==
  /\ pc = "waiting"
  /\ job.bounded
  /\ pc' = "prepare"
  /\ UNCHANGED <<timeout, secrets, files, stuck, bundle, log, job, used>>

(* The timeout includes the time it takes to read the body.                *)
Expire ==
  /\ pc = "waiting"
  /\ job.bounded
  /\ \/ CallFails
     \/ /\ job.phase = "check" /\ Kind = "helm-http"
        /\ End("check failed", files \cup {Mine("index.yaml")})
        /\ UNCHANGED stuck
  /\ UNCHANGED <<timeout, secrets, used>>

(* The rest of Reconcile, well or not, and its deferred RemoveAll, the     *)
(* error of which Reconcile returns.                                       *)
Finish ==
  /\ pc = "working"
  /\ \E rest \in Remains("crd") :
       /\ End(IF rest = {} THEN "done" ELSE "not removed", (files \ {Mine("crd")}) \cup rest)
       /\ stuck' = stuck \cup rest
  /\ UNCHANGED <<timeout, secrets, used>>

EditSecret(b) ==
  /\ used.edits < MaxEdits
  /\ used' = [used EXCEPT !.edits = @ + 1]
  /\ \E keys \in {{"password"}, Keys} \ {secrets[b]} :
       secrets' = [secrets EXCEPT ![b] = keys]
  /\ UNCHANGED <<timeout, files, stuck, bundle, log, pc, job>>

(* A new process has a new default client and the old disk. *)
Crash ==
  /\ used.crashes < MaxCrashes
  /\ used' = [used EXCEPT !.crashes = @ + 1]
  /\ log' = Append(log, [key |-> IF pc = "idle" THEN NoJob ELSE job.key,
                         result |-> "crashed"])
  /\ timeout' = FALSE
  /\ pc' = "idle"
  /\ job' = NoJob
  /\ bundle' = <<>>
  /\ files' = {f \in files : f.name # "connection"}
  /\ UNCHANGED <<secrets, stuck>>

Worker == \/ Refuse \/ ReadCredentials \/ SaveCredentials \/ Send \/ SendAuthorised
          \/ CredentialsFail \/ ReadConfigMap \/ Expire \/ Finish

Next == \/ \E b \in Bootstraps : Take(b)
        \/ \E b \in SecretRef : EditSecret(b)
        \/ Worker \/ Respond \/ Crash

(* The worker never stops and timeouts fire; no server ever has to answer. *)
Spec == Init /\ [][Next]_vars /\ WF_vars(Worker)

-----------------------------------------------------------------------------
AnonymousRelease(b) == KindOf[b] \in {"github", "gitlab"} /\ b \notin SecretRef

(* Since the process started, an attempt for a public release has ended.   *)
ReleaseTried ==
  \E n \in 1..Len(log) :
    /\ log[n].key # NoJob
    /\ AnonymousRelease(log[n].key)
    /\ \A m \in n..Len(log) : log[m].result # "crashed"

(* github.go:120, gitlab.go:120: a check for a release never waits for     *)
(* ever, nor does the download of a public one; and once a public release  *)
(* has been looked for, no anonymous request to a URL or a chart index     *)
(* does, though neither provider asks for a timeout.                       *)
WhoMayHang ==
  pc = "waiting" /\ ~job.bounded =>
    \/ Kind = "helm-oci" \/ Downloading
    \/ Released /\ job.phase = "fetch" /\ HasRef
    \/ Kind \in {"url", "helm-http"} /\ (HasRef \/ ~ReleaseTried)

(* What the nth attempt made and is still there. *)
NamesOf(disk, n) == {f.name : f \in {g \in disk : g.attempt = n}}

MayLeave(key, how, names, kept) ==
  /\ names \cap {"config.json", "credentials"} # {} =>
       KindOf[key] = "helm-oci" /\ key \in SecretRef
  /\ how # "crashed" =>
       /\ kept \subseteq names \ {"index.yaml", "connection"}
       /\ names \subseteq {"crd", "index.yaml", "connection"} \cup kept
       /\ "crd" \in names <=> how \in {"fetch failed", "not removed"}
       /\ kept \subseteq {"credentials"} \/ how \in {"check failed", "fetch failed", "not removed"}
       /\ "index.yaml" \in names => KindOf[key] = "helm-http"
       /\ KindOf[key] = "helm-http" /\ how # "check failed" => "index.yaml" \in names

(* What an attempt leaves behind when it is over: its directory exactly if *)
(* the fetch failed or the directory could not be removed, the index of an *)
(* HTTP repository once it came, and else only what could not be removed.  *)
(* An attempt that left such a file has failed, but for one: credentials   *)
(* for a registry may stay on the disk of an attempt that went well.       *)
LeftBehind ==
  \A n \in 1..Len(log) :
    MayLeave(log[n].key, log[n].result, NamesOf(files, n), NamesOf(stuck, n))

(* helm.go:333: a connection is left open by a check of an HTTP repository *)
(* only, and no anonymous one once a public release was looked for in this *)
(* process, as the timeout that set ends it.                               *)
ConnectionsKept ==
  \A f \in {g \in files : g.name = "connection"} :
    LET n == f.attempt IN
      /\ n \in 1..Len(log)
      /\ KindOf[log[n].key] = "helm-http" /\ log[n].result = "check failed"
      /\ \A m \in 1..Len(log) : log[m].result = "crashed" => m < n
      /\ log[n].key \notin SecretRef =>
           \A m \in {i \in 1..(n - 1) : log[i].key # NoJob} :
             AnonymousRelease(log[m].key) => \E i \in m..n : log[i].result = "crashed"

(* helm.go:155: the bundle of a chart holds the files of its crds folders, *)
(* each once for every crds folder it lies under, and no other file; that  *)
(* of an archive is empty.                                                 *)
BundleMatchesChart ==
  \A f \in DOMAIN bundle :
    Cardinality(bundle[f]) = IF Kind = "helm-oci" THEN TimesWritten(f) ELSE 0

(* Nothing but a request without a timeout keeps the worker for ever.      *)
WorkerComesBack == []<>(pc = "idle" \/ (pc = "waiting" /\ ~job.bounded))
=============================================================================
