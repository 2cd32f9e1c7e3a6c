-------------------------------- MODULE Access --------------------------------
(***************************************************************************)
(* Creating a conversation and letting others edit it                      *)
(* (backend/src/routes/conversations.ts, repositories/conversations.ts):   *)
(* POST /conversations inserts the conversation and the owner's token;     *)
(* POST .../access-requests files a request, its GET polls it, and         *)
(* .../approve, which the owner may send for several requests and more     *)
(* than once, derives the editor password, inserts its token and marks the *)
(* request.  Every statement is its own transaction.                       *)
(*                                                                         *)
(* A token is named by the role it is derived for: the password of the     *)
(* editors is a hash of the conversation and its salt, one for all.        *)
(***************************************************************************)
EXTENDS Naturals, FiniteSets

CONSTANTS
  AccessRequest,  \* requests filed with one conversation
  Approval,       \* POST .../approve calls
  MaxAccessFaults \* bound: failed statements and restarts of the backend

ASSUME AccessAssumption == MaxAccessFaults \in Nat

VARIABLES
  ownerCall,  \* POST /conversations: "start", "inserted", "told", "failed"
  accessTokens, \* conversation_access_tokens, by role; the token is the key
  filed,      \* access_requests: "none", "pending" or "approved"
  approving,  \* approving[c]: the request of the call and where the call is
  told,       \* requests whose requester was sent the editor password
  accessFaults,
  spoiled     \* history: approvals hit by a fault

callVars == <<ownerCall, approving>>
tableVars == <<accessTokens, filed>>
accessVars == <<callVars, tableVars, told, accessFaults, spoiled>>

NoRequest == [at |-> "idle"]

AccessInit ==
  /\ ownerCall = "start" /\ accessTokens = {}
  /\ filed = [r \in AccessRequest |-> "none"]
  /\ approving = [c \in Approval |-> NoRequest]
  /\ told = {} /\ accessFaults = 0 /\ spoiled = {}

AccessFault == accessFaults < MaxAccessFaults /\ accessFaults' = accessFaults + 1
GoesOn(c, from, to) ==
  /\ approving[c].at = from
  /\ approving' = [approving EXCEPT ![c].at = to]

-------------------------------------------------------------------------------
\* POST /conversations: two statements, and only then the owner's password.
CreateConversation ==
  /\ \/ ownerCall = "start" /\ ownerCall' = "inserted" /\ UNCHANGED <<accessTokens, accessFaults>>
     \/ /\ ownerCall = "inserted" /\ ownerCall' = "told"
        /\ accessTokens' = accessTokens \cup {"owner"} /\ UNCHANGED accessFaults
     \/ ownerCall = "inserted" /\ ownerCall' = "failed" /\ AccessFault /\ UNCHANGED accessTokens
  /\ UNCHANGED <<filed, approving, told, spoiled>>

\* createAccessRequest: anybody may, once the conversation exists.
FileRequest(r) ==
  /\ ownerCall # "start" /\ filed[r] = "none"
  /\ filed' = [filed EXCEPT ![r] = "pending"]
  /\ UNCHANGED <<callVars, accessTokens, told, accessFaults, spoiled>>

\* GET .../access-requests/:requestId sends request.editor_token.
PollRequest(r) ==
  /\ filed[r] = "approved"
  /\ told' = told \cup {r}
  /\ UNCHANGED <<callVars, tableVars, accessFaults, spoiled>>

\* resolveConversationRole, getAccessRequest and getConversation: the owner's
\* password is needed, and a request that is not pending is refused.
BeginApproval(c, r) ==
  /\ approving[c] = NoRequest /\ filed[r] # "none"
  /\ approving' = [approving EXCEPT ![c] =
       [request |-> r,
        at |-> IF ownerCall = "told" /\ "owner" \in accessTokens /\ filed[r] = "pending"
               THEN "insert" ELSE "refused"]]
  /\ UNCHANGED <<ownerCall, tableVars, told, accessFaults, spoiled>>

\* Mutant: an insertAccessToken that fails is logged and ignored.
InsertTokenOrNot(c) ==
  /\ GoesOn(c, "insert", "mark")
  /\ \/ accessTokens' = accessTokens \cup {"editor"} /\ UNCHANGED accessFaults
     \/ AccessFault /\ UNCHANGED accessTokens
  /\ UNCHANGED <<ownerCall, filed, told, spoiled>>

\* insertAccessToken: a second row with the same token violates the key.
InsertToken(c) ==
  /\ \/ "editor" \notin accessTokens /\ GoesOn(c, "insert", "mark") /\ accessTokens' = accessTokens \cup {"editor"}
     \/ "editor" \in accessTokens /\ GoesOn(c, "insert", "failed") /\ UNCHANGED accessTokens
  /\ UNCHANGED <<ownerCall, filed, told, accessFaults, spoiled>>

\* approveAccessRequest, and the password in the answer to the owner.
MarkApproved(c) ==
  /\ GoesOn(c, "mark", "approved")
  /\ filed' = [filed EXCEPT ![approving[c].request] = "approved"]
  /\ UNCHANGED <<ownerCall, accessTokens, told, accessFaults, spoiled>>

\* A statement fails, or the backend restarts and with it end all its calls:
\* what they wrote stays.
ApprovalFails(c) ==
  /\ \/ GoesOn(c, "insert", "failed")
     \/ GoesOn(c, "mark", "failed")
  /\ AccessFault /\ spoiled' = spoiled \cup {c}
  /\ UNCHANGED <<ownerCall, tableVars, told>>

BackendRestarts ==
  /\ AccessFault
  /\ ownerCall' = IF ownerCall = "inserted" THEN "failed" ELSE ownerCall
  /\ LET hit == {c \in Approval : approving[c].at \in {"insert", "mark"}}
     IN  /\ approving' = [c \in Approval |->
              IF c \in hit THEN [approving[c] EXCEPT !.at = "failed"] ELSE approving[c]]
         /\ spoiled' = spoiled \cup hit
  /\ UNCHANGED <<tableVars, told>>

AccessNext ==
  \/ CreateConversation \/ BackendRestarts
  \/ \E r \in AccessRequest : FileRequest(r) \/ PollRequest(r)
  \/ \E c \in Approval :
       \/ \E r \in AccessRequest : BeginApproval(c, r)
       \/ InsertToken(c) \/ MarkApproved(c) \/ ApprovalFails(c)

AccessSpec == AccessInit /\ [][AccessNext]_accessVars

-------------------------------------------------------------------------------
(* Properties *)

AccessTypeOK ==
  /\ ownerCall \in {"start", "inserted", "told", "failed"}
  /\ accessTokens \subseteq {"owner", "editor"}
  /\ filed \in [AccessRequest -> {"none", "pending", "approved"}]
  /\ approving \in [Approval -> {NoRequest} \cup
       [request : AccessRequest,
        at : {"insert", "mark", "approved", "refused", "failed"}]]
  /\ told \subseteq AccessRequest /\ spoiled \subseteq Approval
  /\ accessFaults \in 0 .. MaxAccessFaults

\* A password that was handed out opens the conversation: the requester who
\* polls an approved request, and the owner who was sent one, find its token
\* in the table, whichever statement of which approval failed.
PasswordOpens ==
  /\ ownerCall = "told" => "owner" \in accessTokens
  /\ told # {} \/ (\E r \in AccessRequest : filed[r] = "approved") => "editor" \in accessTokens

\* ARCHITECTURE.md:189, the owner "can approve editor requests": an approval
\* that began for a pending request fails only when a statement failed or the
\* backend restarted under it, or another call approves the same request.
EditorsCanBeApproved ==
  \A c \in Approval : approving[c].at = "failed" =>
    c \in spoiled \/ \E d \in Approval \ {c} :
      approving[d] # NoRequest /\ approving[d].request = approving[c].request
===============================================================================
