------------------------- MODULE WebhookNotification -------------------------
(***************************************************************************)
(* Webhook delivery for one event.  SendHookWithPolicies (controller/      *)
(* event/handler/util/util.go) builds and publishes one hook event per     *)
(* policy target; the notifier runs the HTTP handler for each published    *)
(* event on its own goroutine, which calls StartHook (pkg/notification/    *)
(* hook/hook.go): create a Pending job record, submit the job, then store  *)
(* its UUID.  The jobservice runs WebhookJob (jobservice/job/impl/         *)
(* notification/webhook_job.go) and retries it until it succeeds or has    *)
(* failed MaxFails times; its final status reaches the record through      *)
(* the status hook, keyed by record id.  A POST can reach the receiver     *)
(* and still fail (lost or late response), so deliveries can repeat.       *)
(***************************************************************************)
EXTENDS Naturals, FiniteSets, Sequences, SequencesExt

CONSTANTS
    HookSeq,    \* <<policy, target>> pairs in the order the loops visit them
    MaxFails    \* WebhookJob.MaxFails(): 10 by default, env override

ASSUME IsInjective(HookSeq) /\ MaxFails \in Nat \ {0}

Hooks == ToSet(HookSeq)

NoRecord == [exists |-> FALSE, status |-> "Pending", uuid |-> FALSE]

VARIABLES
    enabled,    \* config.NotificationEnable
    sendIdx,    \* position of the SendHookWithPolicies loop in HookSeq
    errRet,     \* errRet of SendHookWithPolicies
    sendResult, \* "running", "nil" or "error": what SendHookWithPolicies returns
    sent,       \* [Hooks -> outcome of build+publish for the hook]
    stage,      \* [Hooks -> progress of StartHook on the handler goroutine]
    record,     \* [Hooks -> the notification job row in the database]
    job,        \* [Hooks -> state of the job in the jobservice]
    fails,      \* [Hooks -> failed runs of the job]
    reports,    \* final statuses on their way to the status hook
    delivered   \* [Hooks -> POSTs the receiver has processed]

vars == <<enabled, sendIdx, errRet, sendResult, sent, stage, record,
          job, fails, reports, delivered>>

Init ==
    /\ enabled \in BOOLEAN
    /\ sendIdx = 1
    /\ errRet = FALSE
    /\ sendResult = "running"
    /\ sent = [h \in Hooks |-> "unsent"]
    /\ stage = [h \in Hooks |-> "idle"]
    /\ record = [h \in Hooks |-> NoRecord]
    /\ job = [h \in Hooks |-> "none"]
    /\ fails = [h \in Hooks |-> 0]
    /\ reports = {}
    /\ delivered = [h \in Hooks |-> 0]

sendVars == <<enabled, sendIdx, errRet, sendResult, sent>>
hookVars == <<stage, record>>
jobVars == <<job, fails, reports, delivered>>

(***************************************************************************)
(* SendHookWithPolicies.                                                   *)
(***************************************************************************)
\* The notification feature is disabled: return nil at once.
SendDisabled ==
    /\ sendResult = "running"
    /\ ~enabled
    /\ sendResult' = "nil"
    /\ UNCHANGED <<enabled, sendIdx, errRet, sent>>
    /\ UNCHANGED <<hookVars, jobVars>>

\* One target of one policy: evt.Build, then evt.Publish; a failure of either
\* sets errRet and the loop goes on.
\* Mutant: the loop returns at the first failing target.
SendOneReturnOnError ==
    /\ sendResult = "running"
    /\ enabled
    /\ sendIdx <= Len(HookSeq)
    /\ LET h == HookSeq[sendIdx] IN
       \E outcome \in {"buildFailed", "publishFailed", "published"} :
         /\ sent' = [sent EXCEPT ![h] = outcome]
         /\ errRet' = (errRet \/ outcome # "published")
         /\ stage' = IF outcome = "published"
                     THEN [stage EXCEPT ![h] = "published"] ELSE stage
         /\ sendIdx' = IF outcome = "published" THEN sendIdx + 1 ELSE Len(HookSeq) + 1
    /\ UNCHANGED <<enabled, sendResult, record, jobVars>>

SendOne ==
    /\ sendResult = "running"
    /\ enabled
    /\ sendIdx <= Len(HookSeq)
    /\ LET h == HookSeq[sendIdx] IN
       \E outcome \in {"buildFailed", "publishFailed", "published"} :
         /\ sent' = [sent EXCEPT ![h] = outcome]
         /\ errRet' = (errRet \/ outcome # "published")
         /\ stage' = IF outcome = "published"
                     THEN [stage EXCEPT ![h] = "published"] ELSE stage
    /\ sendIdx' = sendIdx + 1
    /\ UNCHANGED <<enabled, sendResult, record, jobVars>>

SendReturn ==
    /\ sendResult = "running"
    /\ enabled
    /\ sendIdx > Len(HookSeq)
    /\ sendResult' = IF errRet THEN "error" ELSE "nil"
    /\ UNCHANGED <<enabled, sendIdx, errRet, sent, hookVars, jobVars>>

(***************************************************************************)
(* StartHook, on the handler goroutine of a published event.               *)
(***************************************************************************)
\* Marshal the payload and create the record with status Pending; either
\* failing returns the error with no record.
HookCreate(h) ==
    /\ stage[h] = "published"
    /\ \/ /\ record' = [record EXCEPT ![h] = [exists |-> TRUE, status |-> "Pending",
                                               uuid |-> FALSE]]
          /\ stage' = [stage EXCEPT ![h] = "created"]
       \/ /\ stage' = [stage EXCEPT ![h] = "returned"]
          /\ UNCHANGED record
    /\ UNCHANGED <<sendVars, jobVars>>

\* SubmitJob.  On failure the record is updated to Error, an update that can
\* fail in turn and is then only logged.
HookSubmit(h) ==
    /\ stage[h] = "created"
    /\ \/ /\ job' = [job EXCEPT ![h] = "queued"]
          /\ stage' = [stage EXCEPT ![h] = "submitted"]
          /\ UNCHANGED record
       \/ /\ stage' = [stage EXCEPT ![h] = "returned"]
          /\ \/ record' = [record EXCEPT ![h].status = "Error"]
             \/ UNCHANGED record
          /\ UNCHANGED job
    /\ UNCHANGED <<sendVars, fails, reports, delivered>>

\* Mutant: the UUID update writes every column of the partial Job value.
HookUpdateAllColumns(h) ==
    /\ stage[h] = "submitted"
    /\ \/ record' = [record EXCEPT ![h] = [exists |-> TRUE, status |-> "", uuid |-> TRUE]]
       \/ UNCHANGED record
    /\ stage' = [stage EXCEPT ![h] = "returned"]
    /\ UNCHANGED <<sendVars, jobVars>>

\* Store the UUID, updating the "UUID" column only; a failure is returned.
HookUpdateUUID(h) ==
    /\ stage[h] = "submitted"
    /\ \/ record' = [record EXCEPT ![h].uuid = TRUE]
       \/ UNCHANGED record
    /\ stage' = [stage EXCEPT ![h] = "returned"]
    /\ UNCHANGED <<sendVars, jobVars>>

(***************************************************************************)
(* The jobservice runs WebhookJob.Run: POST the payload; a transport       *)
(* error or a status outside 2xx fails the run.  ShouldRetry is true, so   *)
(* a failed run is retried until the job has failed MaxFails times.        *)
(***************************************************************************)
\* Mutant: off by one, the job errors only after MaxFails + 1 failures.
JobFailedOffByOne(h, reached) ==
    /\ delivered' = [delivered EXCEPT ![h] = @ + (IF reached THEN 1 ELSE 0)]
    /\ fails' = [fails EXCEPT ![h] = @ + 1]
    /\ IF fails[h] + 1 > MaxFails
       THEN /\ job' = [job EXCEPT ![h] = "errored"]
            /\ reports' = reports \cup {<<h, "Error">>}
       ELSE /\ job' = [job EXCEPT ![h] = "retrying"]
            /\ UNCHANGED reports

\* A failed run.  The failure count and the retry loop are the jobservice's
\* (outside this repository); WebhookJob supplies MaxFails() and
\* ShouldRetry() = true.
JobFailed(h, reached) ==
    /\ delivered' = [delivered EXCEPT ![h] = @ + (IF reached THEN 1 ELSE 0)]
    /\ fails' = [fails EXCEPT ![h] = @ + 1]
    /\ IF fails[h] + 1 >= MaxFails
       THEN /\ job' = [job EXCEPT ![h] = "errored"]
            /\ reports' = reports \cup {<<h, "Error">>}
       ELSE /\ job' = [job EXCEPT ![h] = "retrying"]
            /\ UNCHANGED reports

\* Mutant: the response code is not checked, a rejected POST counts as success.
JobRunIgnoringStatus(h) ==
    /\ job[h] \in {"queued", "retrying"}
    /\ \/ /\ delivered' = [delivered EXCEPT ![h] = @ + 1]
          /\ job' = [job EXCEPT ![h] = "succeeded"]
          /\ reports' = reports \cup {<<h, "Success">>}
          /\ UNCHANGED fails
       \/ /\ job' = [job EXCEPT ![h] = "succeeded"]
          /\ reports' = reports \cup {<<h, "Success">>}
          /\ UNCHANGED <<fails, delivered>>
       \/ JobFailed(h, TRUE)
    /\ UNCHANGED <<sendVars, hookVars>>

JobRun(h) ==
    /\ job[h] \in {"queued", "retrying"}
    /\ \/ \* 2xx
          /\ delivered' = [delivered EXCEPT ![h] = @ + 1]
          /\ job' = [job EXCEPT ![h] = "succeeded"]
          /\ reports' = reports \cup {<<h, "Success">>}
          /\ UNCHANGED fails
       \/ \* non-2xx, or no connection: the receiver did not take it
          JobFailed(h, FALSE)
       \/ \* the receiver processed it but the response was lost or late
          JobFailed(h, TRUE)
    /\ UNCHANGED <<sendVars, hookVars>>

\* The status hook of the core writes the reported status to the record.
StatusHook(h, s) ==
    /\ <<h, s>> \in reports
    /\ record' = [record EXCEPT ![h].status = s]
    /\ reports' = reports \ {<<h, s>>}
    /\ UNCHANGED <<sendVars, stage, job, fails, delivered>>

\* Every goroutine and job has finished.
Quiescent ==
    /\ sendResult # "running"
    /\ \A h \in Hooks : stage[h] \in {"idle", "returned"}
                        /\ job[h] \in {"none", "succeeded", "errored"}
    /\ reports = {}
    /\ UNCHANGED vars

Next ==
    \/ SendDisabled \/ SendOne \/ SendReturn
    \/ \E h \in Hooks :
         \/ HookCreate(h) \/ HookSubmit(h) \/ HookUpdateUUID(h) \/ JobRun(h)
    \/ \E r \in reports : StatusHook(r[1], r[2])
    \/ Quiescent

(***************************************************************************)
(* The caller of SendHookWithPolicies, the handler goroutines, the         *)
(* jobservice workers and the status hook all keep running.                *)
(***************************************************************************)
Fairness ==
    /\ WF_vars(SendDisabled \/ SendOne \/ SendReturn)
    /\ \A h \in Hooks : WF_vars(HookCreate(h) \/ HookSubmit(h) \/ HookUpdateUUID(h))
    /\ \A h \in Hooks : WF_vars(JobRun(h))
    /\ \A h \in Hooks : \A s \in {"Success", "Error"} : WF_vars(StatusHook(h, s))

Spec == Init /\ [][Next]_vars /\ Fairness

(***************************************************************************)
(* Properties.                                                             *)
(***************************************************************************)
TypeOK ==
    /\ sendIdx \in 1..Len(HookSeq) + 1
    /\ sendResult \in {"running", "nil", "error"}
    /\ sent \in [Hooks -> {"unsent", "buildFailed", "publishFailed", "published"}]
    /\ stage \in [Hooks -> {"idle", "published", "created", "submitted", "returned"}]
    /\ record \in [Hooks -> [exists : BOOLEAN, uuid : BOOLEAN,
                             status : {"Pending", "Error", "Success"}]]
    /\ job \in [Hooks -> {"none", "queued", "retrying", "succeeded", "errored"}]
    /\ fails \in [Hooks -> 0..MaxFails]
    /\ reports \subseteq Hooks \X {"Success", "Error"}

\* util.go: one failing target never keeps the others from being tried, and
\* the caller gets an error exactly when some target failed.
SendReportsEveryFailure ==
    sendResult # "running" =>
        /\ enabled => \A h \in Hooks : sent[h] # "unsent"
        /\ (sendResult = "error") <=> (\E h \in Hooks : sent[h] \in {"buildFailed", "publishFailed"})

\* The UUID written by StartHook after SubmitJob never overwrites a final
\* status the status hook has already written (the job can finish first).
StatusNotClobbered ==
    [][\A h \in Hooks :
         record[h].status \in {"Success", "Error"} =>
             record'[h].status = record[h].status]_record

\* A record reads Success only if the receiver has processed the payload.
SuccessImpliesDelivered ==
    \A h \in Hooks : record[h].status = "Success" => delivered[h] >= 1

\* hook.go: a job record that StartHook created does not stay Pending for
\* ever; either its job runs and reports a final status, or StartHook marks
\* it Error when the submit fails.
RecordLeavesPending ==
    \A h \in Hooks :
        (record[h].exists /\ record[h].status = "Pending") ~> record[h].status # "Pending"
=============================================================================
