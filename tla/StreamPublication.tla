--------------------------- MODULE StreamPublication ---------------------------
(***************************************************************************)
(* write::StreamLayerClientImpl: the tasks behind PublishData and          *)
(* PublishSdii, with the requests that each of them makes one after the    *)
(* other, and the look-ups among them, whose answers share the cache.      *)
(*                                                                         *)
(* The services are external.  They may have done what was asked although  *)
(* the client is told of a failure: the answer is lost, too late, or the   *)
(* task was cancelled meanwhile.                                           *)
(***************************************************************************)
EXTENDS Naturals, Sequences

CONSTANTS
    Publications,   \* calls of PublishData and PublishSdii
    Contents        \* what they publish: small or large data, or a list

VARIABLES
    content,        \* what each call publishes
    pc,             \* where its task is
    step,           \* the request it is about to make
    cancelled,      \* whether its context is
    cachedUrls,     \* the services whose URL is in the cache
    made,           \* the requests of each task that a service has accepted
    answer,         \* what the task returns, then what the user is told
    calls,          \* history: how often the user was called back
    doubt           \* history: tasks told of a failure of what was done

publicationVars == <<content, pc, step, cancelled, cachedUrls, made, answer, calls, doubt>>

(* The requests of a task.  Large data is published like a partition of a  *)
(* versioned layer, small data is ingested.  The former is visible with    *)
(* its last request, like the latter.                                      *)
RequestsOf_SubmitFirst ==
    [small |-> <<"config", "GetCatalog", "ingest", "IngestData">>,
     large |-> <<"config", "GetCatalog", "publish", "blob", "InitPublication", "PutBlob",
                 "SubmitPublication", "UploadPartitions">>,
     sdii |-> <<"ingest", "IngestSdii">>]
RequestsOf ==
    [small |-> <<"config", "GetCatalog", "ingest", "IngestData">>,
     large |-> <<"config", "GetCatalog", "publish", "blob", "InitPublication", "PutBlob",
                 "UploadPartitions", "SubmitPublication">>,
     sdii |-> <<"ingest", "IngestSdii">>]

Looks == {"config", "ingest", "publish", "blob"}

TypeOK ==
    /\ content \in [Publications -> Contents]
    /\ pc \in [Publications -> {"new", "pending", "run", "over", "done"}]
    /\ \A t \in Publications :
        /\ step[t] \in 1..Len(RequestsOf[content[t]]) + 1
        /\ \A r \in made[t] : \E i \in DOMAIN RequestsOf[content[t]] : RequestsOf[content[t]][i] = r
    /\ cancelled \in [Publications -> BOOLEAN] /\ cachedUrls \subseteq Looks
    /\ answer \in [Publications -> {"none", "ok", "error", "cancelled"}]
    /\ calls \in [Publications -> 0..1] /\ doubt \subseteq Publications

Init ==
    /\ content \in [Publications -> Contents]
    /\ pc = [t \in Publications |-> "new"] /\ step = [t \in Publications |-> 1]
    /\ cancelled = [t \in Publications |-> FALSE] /\ cachedUrls = {}
    /\ made = [t \in Publications |-> {}] /\ answer = [t \in Publications |-> "none"]
    /\ calls = [t \in Publications |-> 0] /\ doubt = {}

-----------------------------------------------------------------------------

Answer(t, a) == answer' = [answer EXCEPT ![t] = a] /\ calls' = [calls EXCEPT ![t] = @ + 1]

(* Null data is refused at once; what is wrong with a list, in the task.   *)
PublishData(t) ==
    /\ pc[t] = "new"
    /\ \/ pc' = [pc EXCEPT ![t] = "pending"] /\ UNCHANGED <<answer, calls>>
       \/ content[t] # "sdii" /\ pc' = [pc EXCEPT ![t] = "done"] /\ Answer(t, "error")
    /\ UNCHANGED <<content, step, cancelled, cachedUrls, made, doubt>>

Cancel(t) ==
    /\ pc[t] \in {"pending", "run", "over"} /\ ~cancelled[t]
    /\ cancelled' = [cancelled EXCEPT ![t] = TRUE]
    /\ UNCHANGED <<content, pc, step, cachedUrls, made, answer, calls, doubt>>

(* TaskContext::Execute: what is cancelled is not run. *)
Execute(t) ==
    /\ pc[t] = "pending"
    /\ \/ cancelled[t] /\ pc' = [pc EXCEPT ![t] = "over"] /\ UNCHANGED answer
       \/ ~cancelled[t] /\ pc' = [pc EXCEPT ![t] = "run"] /\ UNCHANGED answer
       \/ /\ ~cancelled[t] /\ content[t] = "sdii"
          /\ pc' = [pc EXCEPT ![t] = "over"] /\ answer' = [answer EXCEPT ![t] = "error"]
    /\ UNCHANGED <<content, step, cancelled, cachedUrls, made, calls, doubt>>

Request(t) == RequestsOf[content[t]][step[t]]

(* The task goes on, or has a result. *)
Succeeds(t) ==
    /\ step' = [step EXCEPT ![t] = @ + 1]
    /\ IF step[t] = Len(RequestsOf[content[t]])
       THEN pc' = [pc EXCEPT ![t] = "over"] /\ answer' = [answer EXCEPT ![t] = "ok"]
       ELSE UNCHANGED <<pc, answer>>
Fails(t) ==
    /\ pc' = [pc EXCEPT ![t] = "over"] /\ answer' = [answer EXCEPT ![t] = "error"]
    /\ UNCHANGED step

(* A URL that is cached is not asked for; one that is found is cached for  *)
(* an hour, unless the cache refuses it.                                   *)
LookupApiClient(t) ==
    /\ pc[t] = "run" /\ Request(t) \in Looks
    /\ \/ Request(t) \in cachedUrls /\ Succeeds(t) /\ UNCHANGED cachedUrls
       \/ /\ Request(t) \notin cachedUrls /\ ~cancelled[t]
          /\ Succeeds(t)
          /\ \/ cachedUrls' = cachedUrls \cup {Request(t)}
             \/ UNCHANGED cachedUrls
       \/ Request(t) \notin cachedUrls /\ Fails(t) /\ UNCHANGED cachedUrls
    /\ UNCHANGED <<content, cancelled, made, calls, doubt>>

Expire(service) ==
    /\ service \in cachedUrls /\ cachedUrls' = cachedUrls \ {service}
    /\ UNCHANGED <<content, pc, step, cancelled, made, answer, calls, doubt>>

(* A request of a cancelled task is not sent.  The catalog may have no     *)
(* such layer, and the new publication no ID.                              *)
Call_FailureIgnored(t) ==
    /\ pc[t] = "run" /\ Request(t) \notin Looks
    /\ Succeeds(t)
    /\ \/ ~cancelled[t] /\ made' = [made EXCEPT ![t] = @ \cup {Request(t)}]
       \/ UNCHANGED made
    /\ UNCHANGED <<content, cancelled, cachedUrls, calls, doubt>>
Call(t) ==
    /\ pc[t] = "run" /\ Request(t) \notin Looks
    /\ \/ /\ ~cancelled[t] /\ Succeeds(t)
          /\ made' = [made EXCEPT ![t] = @ \cup {Request(t)}] /\ UNCHANGED doubt
       \/ /\ ~cancelled[t] /\ Fails(t)
          /\ made' = [made EXCEPT ![t] = @ \cup {Request(t)}] /\ doubt' = doubt \cup {t}
       \/ Fails(t) /\ UNCHANGED <<made, doubt>>
    /\ UNCHANGED <<content, cancelled, cachedUrls, calls>>

(* TaskContext hides the result of what has been cancelled. *)
Complete(t) ==
    /\ pc[t] = "over" /\ pc' = [pc EXCEPT ![t] = "done"]
    /\ Answer(t, IF cancelled[t] THEN "cancelled" ELSE answer[t])
    /\ doubt' = IF cancelled[t] /\ answer[t] = "ok" THEN doubt \cup {t} ELSE doubt
    /\ UNCHANGED <<content, step, cancelled, cachedUrls, made>>

-----------------------------------------------------------------------------

TaskStep(t) == Execute(t) \/ LookupApiClient(t) \/ Call(t) \/ Complete(t)

Next ==
    \/ \E t \in Publications : PublishData(t) \/ Cancel(t) \/ TaskStep(t)
    \/ \E service \in Looks : Expire(service)

(* The scheduler runs the tasks, and requests are answered or time out.    *)
Spec == Init /\ [][Next]_publicationVars
FairSpec == Spec /\ \A t \in Publications : WF_publicationVars(TaskStep(t))

-----------------------------------------------------------------------------
(* Properties *)

Services(t) == {RequestsOf[content[t]][i] : i \in DOMAIN RequestsOf[content[t]]} \ Looks
Visible(t) == made[t] \cap {"IngestData", "SubmitPublication", "IngestSdii"} # {}

(* Success means that every request was accepted; who is told of a failure *)
(* has published nothing, but for the request whose answer was lost and    *)
(* the task that was cancelled once it had its result; and what readers    *)
(* see is complete, whichever requests failed, though a publication that   *)
(* was begun is never cancelled (StreamLayerClientImpl.cpp:458, :473).     *)
ToldWhatIsPublished ==
    \A t \in Publications :
        /\ answer[t] = "ok" => made[t] = Services(t)
        /\ pc[t] = "done" /\ answer[t] # "ok" /\ Visible(t) => t \in doubt
        /\ Visible(t) => made[t] = Services(t)

(* Every publication is answered. *)
PublicationsAnswered == \A t \in Publications : pc[t] = "new" \/ calls[t] = 1
EveryPublicationAnswered == []<>PublicationsAnswered
=============================================================================
