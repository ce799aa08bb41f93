------------------------- MODULE AuthenticationClient -------------------------
(***************************************************************************)
(* authentication::AuthenticationClient: requests that sign in, up and out *)
(* and two caches of tokens, which answer when the network does not.       *)
(*                                                                         *)
(* SignInClient first asks the server for the time, and sends its request  *)
(* from the callback of the first; a CancellationContext joins the two.    *)
(* The others send one request.  Each step below runs on a user's thread   *)
(* or in a callback of the network.                                        *)
(***************************************************************************)
EXTENDS Naturals, Sequences, FiniteSets

CONSTANTS
    Calls,              \* calls of the client's operations
    Programs,           \* what they are, at choice: functions to [kind, key]
    Keys,               \* keys of credentials
    TokenCacheLimit,    \* token_cache_limit
    None                \* no call

Kinds == {"SignInClient", "SignInHereUser", "SignInFederated", "SignInRefresh", "AcceptTerms",
          "SignUpHereUser", "SignOut"}

(* What the constants have to be, assumed where they get their values.     *)
AuthenticationAssumption ==
    /\ Programs \subseteq [Calls -> [kind : Kinds, key : Keys]]
    /\ TokenCacheLimit \in Nat /\ None \notin Calls

VARIABLES
    network,    \* whether network_ is set
    call,       \* the calls
    cache,      \* client_token_cache_ and user_token_cache_: the calls whose
                \* answers they hold, most recently used first
    recent,     \* history: what they would hold without a limit
    signedOut   \* history: keys whose user has signed out, and not in since

authVars == <<network, call, cache, recent, signedOut>>

Caches == {"client", "user"}
CacheOf(c) ==
    CASE call[c].kind = "SignInClient" -> "client"
      [] call[c].kind \in {"SignUpHereUser", "SignOut"} -> "none"
      [] OTHER -> "user"

TypeOK ==
    /\ network \in BOOLEAN /\ signedOut \subseteq Keys
    /\ call \in [Calls -> [
           kind : Kinds, key : Keys, pc : {"new", "time", "sent", "scheduled", "done"},
           token : BOOLEAN, killed : BOOLEAN, cancelled : BOOLEAN, nested : BOOLEAN,
           calls : 0..1, answer : {"none", "granted", "invalid", "refused", "error",
                                   "cancelled", "cached"},
           from : Calls \cup {None}]]
    /\ {cache, recent} \subseteq [Caches -> Seq(Calls)]

Init ==
    /\ network \in BOOLEAN /\ signedOut = {}
    /\ \E p \in Programs : call = [c \in Calls |-> [
           kind |-> p[c].kind, key |-> p[c].key, pc |-> "new", token |-> FALSE, killed |-> FALSE,
           cancelled |-> FALSE, nested |-> FALSE, calls |-> 0, answer |-> "none", from |-> None]]
    /\ cache = [k \in Caches |-> <<>>] /\ recent = cache

-----------------------------------------------------------------------------
(* The caches, ordered as LruOrder promises *)

(* Where the entry of c's credentials is, or would be added; putting c to  *)
(* the front moves those before that place by one.                         *)
Find(s, c) == {i \in DOMAIN s : call[s[i]].key = call[c].key}
Place(s, c) == IF Find(s, c) = {} THEN Len(s) + 1 ELSE CHOOSE i \in Find(s, c) : TRUE

ToFront(s, c) ==
    [i \in 1..(IF Find(s, c) = {} THEN Len(s) + 1 ELSE Len(s)) |->
        IF i = 1 THEN c ELSE IF i <= Place(s, c) THEN s[i - 1] ELSE s[i]]

Trim(s) == SubSeq(s, 1, IF Len(s) < TokenCacheLimit THEN Len(s) ELSE TokenCacheLimit)

InsertOrAssign_InPlace(s, c) ==
    IF Find(s, c) = {} THEN Trim(ToFront(s, c))
    ELSE [i \in DOMAIN s |-> IF i \in Find(s, c) THEN c ELSE s[i]]
InsertOrAssign(s, c) == Trim(ToFront(s, c))

-----------------------------------------------------------------------------
(* How a call goes on *)

Set(c, x) == call' = [call EXCEPT ![c] = x]
Answered(x, answer) ==
    [x EXCEPT !.pc = "done", !.calls = @ + 1, !.answer = answer, !.token = FALSE, !.killed = FALSE]
Quiet == UNCHANGED <<network, cache, recent, signedOut>>

(* Send of the request itself, from SignInClient and from the others.      *)
SendOrAnswer(c, x) ==
    \/ Set(c, [x EXCEPT !.pc = "sent", !.token = ~x.nested, !.killed = FALSE])
    \/ Set(c, Answered(x, "error"))
SendOrSchedule(c, x) ==
    \/ Set(c, [x EXCEPT !.pc = "sent", !.token = TRUE])
    \/ Set(c, [x EXCEPT !.pc = "scheduled"])

(* GetTimeFromServer.  If the request for the time is refused, its         *)
(* callback runs within its ExecuteOrCancelled, whose token is the empty   *)
(* one in the end.                                                         *)
GetTimeFromServer(c, x) ==
    \/ Set(c, [x EXCEPT !.pc = "time", !.token = TRUE])
    \/ SendOrAnswer(c, [x EXCEPT !.nested = TRUE])

SignInClient(c) ==
    /\ call[c].kind = "SignInClient" /\ call[c].pc = "new"
    /\ IF network THEN GetTimeFromServer(c, call[c])
       ELSE Set(c, [call[c] EXCEPT !.pc = "scheduled"])
    /\ Quiet

(* HandleUserRequest, SignUpHereUser and SignOut. *)
HandleUserRequest(c) ==
    /\ call[c].kind # "SignInClient" /\ call[c].pc = "new"
    /\ IF network THEN SendOrSchedule(c, call[c])
       ELSE Set(c, [call[c] EXCEPT !.pc = "scheduled"])
    /\ Quiet

(* An error goes through the scheduler, if there is one.                   *)
ExecuteOrSchedule(c) ==
    /\ call[c].pc = "scheduled"
    /\ Set(c, Answered(call[c], "error"))
    /\ Quiet

(* time_callback: whatever the answer, local time will do.                 *)
TimeCallback_Unchecked(c) ==
    /\ call[c].pc = "time" /\ SendOrAnswer(c, call[c])
    /\ Quiet
TimeCallback_NoCancelFunction(c) ==
    /\ call[c].pc = "time" /\ ~call[c].cancelled /\ SendOrAnswer(c, call[c])
    /\ Quiet
TimeCallback(c) ==
    /\ call[c].pc = "time"
    /\ \/ call[c].cancelled /\ Set(c, Answered(call[c], "cancelled"))
       \/ ~call[c].cancelled /\ SendOrAnswer(c, call[c])
    /\ Quiet

-----------------------------------------------------------------------------
(* network_callback, by what the request ended with *)

Cancelled(c) ==
    /\ call[c].pc = "sent" /\ call[c].killed
    /\ Set(c, Answered(call[c], "cancelled"))
    /\ Quiet

Offline(c) ==
    LET k == CacheOf(c) IN
    /\ call[c].pc = "sent"
    /\ \/ /\ k \in Caches
          /\ \E i \in Find(cache[k], c) :
                /\ Set(c, [Answered(call[c], "cached") EXCEPT !.from = cache[k][i]])
                /\ cache' = [cache EXCEPT ![k] = ToFront(@, @[i])]
                /\ recent' = [recent EXCEPT ![k] = ToFront(@, cache[k][i])]
       \/ /\ k \in Caches => Find(cache[k], c) = {}
          /\ Set(c, Answered(call[c], "error"))
          /\ UNCHANGED <<cache, recent>>
    /\ UNCHANGED <<network, signedOut>>

(* Status 200.  The client's answer is stored even if it is not valid.     *)
Stores_UserInvalid(k, valid) == k # "none"
Stores(k, valid) == k = "client" \/ (k = "user" /\ valid)

Ok(c) ==
    LET k == CacheOf(c) IN
    /\ call[c].pc = "sent"
    /\ \E valid \in BOOLEAN :
          /\ Set(c, Answered(call[c], IF valid THEN "granted" ELSE "invalid"))
          /\ IF Stores(k, valid)
             THEN /\ cache' = [cache EXCEPT ![k] = InsertOrAssign(@, c)]
                  /\ recent' = [recent EXCEPT ![k] = ToFront(@, c)]
             ELSE UNCHANGED <<cache, recent>>
          /\ signedOut' =
                CASE call[c].kind = "SignOut" -> signedOut \cup {call[c].key}
                  [] Stores(k, valid) /\ k = "user" -> signedOut \ {call[c].key}
                  [] OTHER -> signedOut
    /\ UNCHANGED network

Refused(c) ==
    /\ call[c].pc = "sent"
    /\ Set(c, Answered(call[c], "refused"))
    /\ Quiet

(* The user's token, after the call has returned. *)
Cancel(c) ==
    /\ call[c].pc \notin {"new", "done"} /\ ~call[c].cancelled
    /\ Set(c, [call[c] EXCEPT !.cancelled = TRUE, !.killed = call[c].token])
    /\ Quiet

-----------------------------------------------------------------------------

Step(c) ==
    \/ ExecuteOrSchedule(c) \/ TimeCallback(c)
    \/ Cancelled(c) \/ Offline(c) \/ Ok(c) \/ Refused(c)

Next == \E c \in Calls : SignInClient(c) \/ HandleUserRequest(c) \/ Cancel(c) \/ Step(c)

(* The network answers every request that it has accepted, and the         *)
(* scheduler runs what it is given.                                        *)
Spec == Init /\ [][Next]_authVars
FairSpec == Spec /\ \A c \in Calls : WF_authVars(Step(c))

-----------------------------------------------------------------------------
(* Properties *)

(* The caches hold the latest answers of the credentials used last, as     *)
(* many as token_cache_limit says, whatever order answers come in; and an  *)
(* offline call is answered with one of its own credentials and of its own *)
(* cache (Find and InsertOrAssign in the callbacks, :316, :563).  The      *)
(* answers to users are tokens; those to clients may be invalid (:348).    *)
CacheExact ==
    /\ \A k \in Caches : cache[k] = Trim(recent[k])
    /\ \A i \in DOMAIN cache["user"] : call[cache["user"][i]].answer = "granted"
    /\ \A c \in Calls : call[c].answer = "cached" =>
          /\ call[c].from # None /\ call[call[c].from].key = call[c].key
          /\ CacheOf(call[c].from) = CacheOf(c)

(* A cancelled call does not send its second request (time_callback runs   *)
(* within ExecuteOrCancelled, :354), and a cancel reaches the one that is  *)
(* on its way, unless the token was lost because the first was refused     *)
(* (:380).  Nobody is told of a cancel who did not cancel.                 *)
CancelStops ==
    \A c \in Calls :
        /\ call[c].pc = "sent" /\ call[c].cancelled => call[c].killed \/ call[c].nested
        /\ call[c].answer = "cancelled" => call[c].cancelled

(* Every call is answered, once, whatever the network refuses, the server  *)
(* says or the user cancels: time and again none waits for its answer.     *)
CallsAnswered == \A c \in Calls : call[c].pc = "new" \/ call[c].calls = 1
EveryCallAnswered == []<>CallsAnswered

(* "Calls the sign-out API and deletes any locally stored tokens"          *)
(* (AuthenticationClient.h:535): after a sign-out nothing of that user is  *)
(* left in the cache.                                                      *)
SignedOutForgotten ==
    \A i \in DOMAIN cache["user"] : call[cache["user"][i]].key \notin signedOut
=============================================================================
