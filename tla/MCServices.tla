------------------------------- MODULE MCServices -------------------------------
(***************************************************************************)
(* Small instances for TLC of the services that every client of the        *)
(* library is built on: the token and the client of the authentication     *)
(* library, of which the former uses the latter by its answers; the        *)
(* network back ends, of which CreateDefaultNetwork makes the one of the   *)
(* platform, and what they do with the body of a response; and the context *)
(* that one of them needs.  They share no state, so a behaviour is about   *)
(* one of them.                                                            *)
(***************************************************************************)
EXTENDS NetworkCurl, FiniteSets, TLC

CONSTANTS
    Callers, Lifetimes, Validities, MaxCalls,
    Calls, Programs, Keys, a1, a2, a3, TokenCacheLimit,
    n1, n2, slot, MaxTime, None,
    s1, s2, s3, p1, p2

VARIABLES
    service,        \* what the behaviour is about
    time, token, cached, refreshTime, mutex, pc, validity, response, calls, asked, got, demands, lag,
    network, call, cache, recent, signedOut,
    http_session, wHandles, winhttp, result, results, thread, wPending, destructor, wSent, wTaken,
    wCancels, wAnswers, wInTime, wDropped,
    initialized, started, requests, obj, completion, aTask, monitor, nativePtr, responses, runThread,
    deinit, aPending, aSent, aCancels, aAnswers, aInTime, aDropped,
    http_client, tasks, idTaskMap, iTask, dataTask, delegate, sharedTasks, iPending, iSent, iCancels,
    iAnswers, iCancelledIds,
    counter, contextMutex, vectors, fired, javaVM, context, scope, up, late,
    platform, attempt, pResponse, phase, count, offset, range_out, payload, tellp, told, outcome

Token == INSTANCE AutoRefreshingToken

As(kind, key) == [kind |-> kind, key |-> key]

(* Three credentials for two places in the cache, or one used again after  *)
(* another; sign-outs between sign-ins; clients and users side by side.    *)
SomePrograms ==
    {a1 :> As("SignInClient", 1) @@ a2 :> As("SignInClient", 2) @@ a3 :> As("SignInClient", 1),
     a1 :> As("SignInFederated", 1) @@ a2 :> As("SignInRefresh", 2) @@ a3 :> As("AcceptTerms", 3),
     a1 :> As("SignInHereUser", 1) @@ a2 :> As("SignOut", 1) @@ a3 :> As("SignInHereUser", 1),
     a1 :> As("SignInHereUser", 1) @@ a2 :> As("SignInClient", 1) @@ a3 :> As("SignUpHereUser", 1)}

Auth == INSTANCE AuthenticationClient

WinHttp == INSTANCE NetworkWinHttp WITH
    Requests <- {n1, n2}, Handles <- {slot}, MaxCancels <- 2, handles <- wHandles, pending <- wPending,
    sent <- wSent, taken <- wTaken, cancels <- wCancels, answers <- wAnswers, inTime <- wInTime,
    dropped <- wDropped

Android == INSTANCE NetworkAndroid WITH
    Requests <- {n1, n2}, MaxRequests <- 2, PoolSize <- 1, MaxRetries <- 1, MaxCancels <- 1,
    task <- aTask, pending <- aPending, sent <- aSent, cancels <- aCancels, answers <- aAnswers,
    inTime <- aInTime, dropped <- aDropped

IOS == INSTANCE OLPNetworkIOS WITH
    Requests <- {n1, n2}, Proxied <- {}, MaxRequests <- 2, MaxCancels <- 1, task <- iTask,
    pending <- iPending, sent <- iSent, cancels <- iCancels, answers <- iAnswers,
    cancelledIds <- iCancelledIds

Ctx == INSTANCE Context WITH
    Scopes <- {s1, s2, s3}, WithVM <- {s1, s2}, Callbacks <- {p1, p2}

Body == INSTANCE ResponsePayload WITH
    MaxBody <- 2, MaxRetries <- 2, response <- pResponse

ASSUME ServicesAssumption ==
    /\ Token!TokenAssumption /\ Auth!AuthenticationAssumption
    /\ WinHttp!NetworkWinHttpAssumption
    /\ Android!NetworkAndroidAssumption /\ IOS!OLPNetworkIOSAssumption
    /\ Ctx!ContextAssumption /\ Body!ResponsePayloadAssumption

tokenVars == <<time, token, cached, refreshTime, mutex, pc, validity, response, calls, asked, got, demands,
               lag>>
authVars == <<network, call, cache, recent, signedOut>>
winhttpVars == <<http_session, wHandles, winhttp, result, results, thread, wPending, destructor, wSent, wTaken,
                 wCancels, wAnswers, wInTime, wDropped>>
androidVars == <<initialized, started, requests, obj, completion, aTask, monitor, nativePtr, responses, runThread,
                 deinit, aPending, aSent, aCancels, aAnswers, aInTime, aDropped>>
iosVars == <<http_client, tasks, idTaskMap, iTask, dataTask, delegate, sharedTasks, iPending, iSent, iCancels,
             iAnswers, iCancelledIds>>
contextVars == <<counter, contextMutex, vectors, fired, javaVM, context, scope, up, late>>
bodyVars == <<platform, attempt, pResponse, phase, count, offset, range_out, payload, tellp, told, outcome>>
all == <<service, vars, tokenVars, authVars, winhttpVars, androidVars, iosVars, contextVars, bodyVars>>

(* Only one choice for what stands still. *)
MCInit ==
    /\ service \in {"token", "authentication", "curl", "winhttp", "android", "ios", "context", "body"}
    /\ Init /\ WinHttp!Init /\ Android!Init /\ IOS!Init /\ Token!Init /\ Auth!Init
    /\ Ctx!Init /\ Body!Init
    /\ service # "authentication" => network /\ \E c \in Calls : call[c].kind = "SignOut"
    /\ service # "body" => platform = "curl"

OnToken(A) ==
    /\ service = "token" /\ A
    /\ UNCHANGED <<service, vars, authVars, winhttpVars, androidVars, iosVars, contextVars, bodyVars>>
Authentication(A) ==
    /\ service = "authentication" /\ A
    /\ UNCHANGED <<service, vars, tokenVars, winhttpVars, androidVars, iosVars, contextVars, bodyVars>>
OnCurl(A) ==
    /\ service = "curl" /\ A
    /\ UNCHANGED <<service, tokenVars, authVars, winhttpVars, androidVars, iosVars, contextVars, bodyVars>>
OnWinHttp(A) ==
    /\ service = "winhttp" /\ A
    /\ UNCHANGED <<service, vars, tokenVars, authVars, androidVars, iosVars, contextVars, bodyVars>>
OnAndroid(A) ==
    /\ service = "android" /\ A
    /\ UNCHANGED <<service, vars, tokenVars, authVars, winhttpVars, iosVars, contextVars, bodyVars>>
OnIOS(A) ==
    /\ service = "ios" /\ A
    /\ UNCHANGED <<service, vars, tokenVars, authVars, winhttpVars, androidVars, contextVars, bodyVars>>
OnContext(A) ==
    /\ service = "context" /\ A
    /\ UNCHANGED <<service, vars, tokenVars, authVars, winhttpVars, androidVars, iosVars, bodyVars>>
OnBody(A) ==
    /\ service = "body" /\ A
    /\ UNCHANGED <<service, vars, tokenVars, authVars, winhttpVars, androidVars, iosVars, contextVars>>

MCNext ==
    \/ OnToken(Token!Next) \/ Authentication(Auth!Next)
    \/ OnCurl(Next) \/ OnWinHttp(WinHttp!Next) \/ OnAndroid(Android!Next) \/ OnIOS(IOS!Next)
    \/ OnContext(Ctx!Next) \/ OnBody(Body!Next)

(* The fairness of the components' specifications; where several steps may *)
(* share one condition because they do not disable each other for good,    *)
(* they do.                                                                *)
MCSpec ==
    /\ MCInit /\ [][MCNext]_all
    /\ \A c \in Callers : SF_all(OnToken(Token!Step(c)))
    /\ \A c \in Calls : WF_all(Authentication(Auth!Step(c)))
    /\ WF_all(OnCurl(WorkerStep)) /\ \A h \in Handles : SF_all(OnCurl(Transfer(h)))
    /\ \A r \in Requests : WF_all(OnCurl(SendImplementation(r)))
    /\ WF_all(OnWinHttp(WinHttp!SendStep \/ WinHttp!ThreadStep \/ WinHttp!DestructorStep))
    /\ WF_all(OnWinHttp(WinHttp!HandleStep(slot)))
    /\ SF_all(OnWinHttp(WinHttp!DataAvailable(slot) /\ result' # result))
    /\ \A r \in {n1, n2} : SF_all(OnAndroid(Android!TaskStep(r)))
    /\ WF_all(OnAndroid(Android!ThreadStep))
    /\ WF_all(OnIOS(IOS!CallOffline \/ \E r \in {n1, n2} : IOS!RequestStep(r)))
    /\ WF_all(OnContext(\E s \in {s1, s2, s3} : Ctx!ScopeStep(s)))

-----------------------------------------------------------------------------
(* The properties of the components, each stated and explained in its      *)
(* module, about this instance.                                            *)

(* The types of the state; until it is answered, every request is          *)
(* accounted for (GetHandle, CompleteMessage, CompleteRequest, Cleanup);   *)
(* the back ends of Windows, Android and iOS call a request back once at   *)
(* most, and tell who cancels in time (NetworkWinHttp, NetworkAndroid,     *)
(* OLPNetworkIOS); the stream has the body of the last answer (RxFunction  *)
(* and the like); and whoever has a Scope has an initialised context       *)
(* (Context::Scope).                                                       *)
Consistent ==
    CASE service = "token" -> Token!TypeOK
      [] service = "authentication" -> Auth!TypeOK
      [] service = "curl" -> TypeOK /\ NothingLost
      [] service = "winhttp" -> /\ WinHttp!TypeOK /\ WinHttp!NothingLost
                                /\ WinHttp!AnsweredOnce /\ WinHttp!CancelReported
      [] service = "android" -> /\ Android!TypeOK /\ Android!NothingLost
                                /\ Android!AnsweredOnce /\ Android!CancelReported
      [] service = "ios" -> /\ IOS!TypeOK /\ IOS!NothingLost
                            /\ IOS!AnsweredOnce /\ IOS!CancelReported /\ IOS!AnsweredForItself
      [] service = "body" -> Body!TypeOK /\ Body!PayloadExact
      [] service = "context" -> Ctx!TypeOK /\ Ctx!ScopeInitialised /\ Ctx!MachineMeansContext

(* A token lasts as long as its caller wants, and is new if the caller     *)
(* wants so (GetToken).                                                    *)
FreshOrNew == service = "token" => Token!FreshEnough /\ Token!ForcedIsNew

(* Cached answers are those of the credentials, the latest, the last used  *)
(* (SignInClient, HandleUserRequest).                                      *)
CacheExact == service = "authentication" => Auth!CacheExact

(* A cancel keeps the second request back, or reaches it (SignInClient).   *)
CancelStops == service = "authentication" => Auth!CancelStops

(* A sign-out forgets the user's token (SignOut). *)
SignedOutForgotten == service = "authentication" => Auth!SignedOutForgotten

(* Calls for a token return; every request is answered and the network's   *)
(* destructor returns, while the one races the other; scopes of the        *)
(* context are made and unmade.                                            *)
Answers ==
    []<>/\ service = "token" => Token!AllReturned
        /\ service = "authentication" => Auth!CallsAnswered
        /\ service = "curl" => Quiet
        /\ service = "winhttp" => WinHttp!Quiet
        /\ service = "android" => Android!Quiet
        /\ service = "ios" => IOS!Quiet
        /\ service = "context" => Ctx!ScopesReturn
=============================================================================
