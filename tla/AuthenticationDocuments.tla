----------------------- MODULE AuthenticationDocuments -----------------------
(***************************************************************************)
(* The documents of the authentication library: the properties that an     *)
(* application signs in or up with, the bodies that AuthenticationClient   *)
(* generates from them, and the results that it makes of the answers.      *)
(*                                                                         *)
(* A result has the fields that its getters return.  The message of an     *)
(* error is a sequence of words, in which "." is a full stop.              *)
(***************************************************************************)
EXTENDS JsonDocument

CONSTANT UnsignedSize       \* one more than the greatest unsigned int

---------------------------------------------------------------------------
(* What an application gives                                               *)

SignInProperties == [scope |-> None, expires_in |-> 0]
UserProperties == [email |-> "", password |-> "", expires_in |-> 0]
FederatedProperties ==
    [access_token |-> "", country_code |-> "", language |-> "", email |-> "", expires_in |-> 0]
RefreshProperties == [access_token |-> "", refresh_token |-> "", expires_in |-> 0]
SignUpProperties ==
    [email |-> "", password |-> "", date_of_birth |-> "", first_name |-> "", last_name |-> "",
     country_code |-> "", language |-> "", marketing_enabled |-> FALSE, phone_number |-> "",
     realm |-> "", invite_token |-> ""]

(* The names that the service knows the properties by. *)
NameOf ==
    [scope |-> "scope", expires_in |-> "expiresIn", email |-> "email", password |-> "password",
     access_token |-> "accessToken", refresh_token |-> "refreshToken",
     country_code |-> "countryCode", language |-> "language", date_of_birth |-> "dob",
     first_name |-> "firstname", last_name |-> "lastname",
     marketing_enabled |-> "marketingEnabled", phone_number |-> "phoneNumber",
     realm |-> "realm", invite_token |-> "inviteToken"]

---------------------------------------------------------------------------
(* The bodies.  What is empty, zero or false is left out.                  *)

NonEmpty(text) == IF text = "" THEN None ELSE text
Positive(number) == IF number > 0 THEN number ELSE None

(* The seconds are cast to an unsigned int before they are looked at.      *)
generateClientBody(p) ==
    Object([grantType |-> "client_credentials", expiresIn |-> Positive(p.expires_in % UnsignedSize),
            scope |-> p.scope])

generateUserBody(p) ==
    Object([grantType |-> "password", email |-> NonEmpty(p.email),
            password |-> NonEmpty(p.password), expiresIn |-> Positive(p.expires_in)])

generateFederatedBody(type, p) ==
    Object([grantType |-> type, accessToken |-> NonEmpty(p.access_token),
            countryCode |-> NonEmpty(p.country_code), language |-> NonEmpty(p.language),
            email |-> NonEmpty(p.email), expiresIn |-> Positive(p.expires_in)])

generateRefreshBody(p) ==
    Object([grantType |-> "refresh_token", accessToken |-> NonEmpty(p.access_token),
            refreshToken |-> NonEmpty(p.refresh_token), expiresIn |-> Positive(p.expires_in)])

generateSignUpBody(p) ==
    Object([email |-> NonEmpty(p.email), password |-> NonEmpty(p.password),
            dob |-> NonEmpty(p.date_of_birth), firstname |-> NonEmpty(p.first_name),
            lastname |-> NonEmpty(p.last_name), countryCode |-> NonEmpty(p.country_code),
            language |-> NonEmpty(p.language),
            marketingEnabled |-> IF p.marketing_enabled THEN TRUE ELSE None,
            phoneNumber |-> NonEmpty(p.phone_number), realm |-> NonEmpty(p.realm),
            inviteToken |-> NonEmpty(p.invite_token)])

---------------------------------------------------------------------------
(* The results.  json is None if the answer was not JSON.                  *)

OK == 200
SERVICE_UNAVAILABLE == 503

(* What the network said of the answer, as opposed to the service.         *)
NetworkMessage == <<"network">>

(* FindMember, for the members of text and of number.                      *)
TextOf(json, name) == IF json = None THEN "" ELSE Text(json, name)
NumberOf(json, name) == IF json = None THEN 0 ELSE Number(json, name)

(* Up to the first full stop; find_first_of has none + 1 = 0 otherwise.    *)
FirstSentence(message) ==
    LET stops == {i \in DOMAIN message : message[i] = "."}
    IN  IF stops = {} THEN <<>>
        ELSE SubSeq(message, 1, CHOOSE i \in stops : \A j \in stops : i <= j)

ErrorFields(fields) ==
    LET Told(field) == "message" \in DOMAIN field
        error(field) == [name |-> field.name, code |-> field.errorCode, message |-> field.message]
    IN  FromVector(SelectSeq(fields, Told), error)

BaseResult(status, json) ==
    LET told == status # OK /\ json # None /\ "errorCode" \in DOMAIN json
        detailed == told /\ {"message", "errorFields"} \subseteq DOMAIN json
    IN  [status |-> status,
         errorId |-> IF told THEN Text(json, "errorId") ELSE "",
         code |-> IF told THEN json.errorCode ELSE 0,
         message |-> IF detailed THEN FirstSentence(json.message)
                     ELSE IF told /\ "message" \in DOMAIN json THEN json.message
                     ELSE NetworkMessage,
         errorFields |-> IF detailed THEN ErrorFields(json.errorFields) ELSE <<>>]

(* What makes a token; without it a successful answer is not one.          *)
IsValid_AnyToken(json) == json # None /\ "accessToken" \in DOMAIN json
IsValid(json) ==
    json # None /\ {"accessToken", "tokenType", "expiresIn"} \subseteq DOMAIN json

With(result, more) ==
    [n \in DOMAIN result \cup DOMAIN more |-> IF n \in DOMAIN more THEN more[n] ELSE result[n]]

SignInResult(status, json) ==
    LET token == IF status = OK /\ IsValid(json) THEN json ELSE None
        base == IF status = OK /\ ~IsValid(json)
                THEN [BaseResult(OK, json) EXCEPT !.status = SERVICE_UNAVAILABLE,
                                                  !.message = <<"unavailable">>]
                ELSE BaseResult(status, json)
    IN  With(base,
            [accessToken |-> TextOf(token, "accessToken"), tokenType |-> TextOf(token, "tokenType"),
             refreshToken |-> TextOf(token, "refreshToken"),
             expiresIn |-> NumberOf(token, "expiresIn"), userId |-> TextOf(token, "userId"),
             scope |-> TextOf(token, "scope")])

(* The terms to accept are there whatever the status, if the service sent  *)
(* them: it does with PRECONDITION_FAILED.                                 *)
SignInUserResult(status, json) ==
    LET url == IF json # None /\ "url" \in DOMAIN json THEN json.url ELSE None
    IN  With(SignInResult(status, json),
            [termsReacceptanceToken |-> TextOf(json, "termsReacceptanceToken"),
             url |-> [tos |-> TextOf(url, "tos"), tosJSON |-> TextOf(url, "tosJSON"),
                      pp |-> TextOf(url, "pp"), ppJSON |-> TextOf(url, "ppJSON")]])

SignUpResult(status, json) ==
    With(BaseResult(status, json), [userId |-> TextOf(json, "userId")])

SignOutResult(status, json) == BaseResult(status, json)

ParseTimeResponse(json) ==
    IF json = None \/ "timestamp" \notin DOMAIN json THEN [error |-> "InternalFailure"]
    ELSE [timestamp |-> json.timestamp]

---------------------------------------------------------------------------
(* Properties                                                              *)

(* A result grants a token only if the service answered 200 with all that  *)
(* makes a token, and then it holds all the service said; the answer of an *)
(* error gives away nothing else than the terms (SignInResultImpl.cpp:43). *)
TokenExact(status, json, result) ==
    /\ result.status = OK <=>
        /\ status = OK /\ json # None
        /\ \A n \in {"accessToken", "tokenType", "expiresIn"} : n \in DOMAIN json
    /\ result.status = OK => \A n \in DOMAIN json \cap DOMAIN result : result[n] = json[n]
    /\ result.status # OK =>
        result.accessToken = "" /\ result.refreshToken = "" /\ result.expiresIn = 0

(* An error is described as the service has described it: its id and code, *)
(* and its message, of which only the first sentence stays if there are    *)
(* errors of single fields (BaseResult.cpp:68).                            *)
ErrorExact(status, json, result) ==
    status # OK /\ json # None /\ "errorCode" \in DOMAIN json =>
        /\ result.status = status /\ result.code = json.errorCode
        /\ "errorId" \in DOMAIN json => result.errorId = json.errorId
        /\ "message" \in DOMAIN json =>
            IF "errorFields" \notin DOMAIN json THEN result.message = json.message
            ELSE \E rest \in {SubSeq(json.message, i, Len(json.message)) :
                                i \in 1..(Len(json.message) + 1)} :
                    json.message = result.message \o rest
        /\ {"message", "errorFields"} \subseteq DOMAIN json =>
            \A i \in DOMAIN json.errorFields : "message" \in DOMAIN json.errorFields[i] =>
                \E j \in DOMAIN result.errorFields :
                    /\ result.errorFields[j].name = json.errorFields[i].name
                    /\ result.errorFields[j].code = json.errorFields[i].errorCode

(* The body says of each property what the application gave, if it gave    *)
(* anything, and nothing else; a duration that is too long for an unsigned *)
(* int is not what was given (AuthenticationClient.cpp:791).               *)
BodySays(properties, default, body) ==
    /\ DOMAIN body \subseteq {NameOf[f] : f \in DOMAIN properties} \cup {"grantType"}
    /\ \A f \in DOMAIN properties :
        /\ properties[f] = default[f] => NameOf[f] \notin DOMAIN body
        /\ properties[f] # default[f] /\ (f = "expires_in" => properties[f] \in 1..(UnsignedSize - 1)) =>
            NameOf[f] \in DOMAIN body /\ body[NameOf[f]] = properties[f]
=============================================================================
