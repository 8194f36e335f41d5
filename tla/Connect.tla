------------------------------ MODULE Connect ------------------------------
(***************************************************************************)
(* The "connect with Harpocrate" flow: an application pushes a request     *)
(* (PAR), a user claims it, has an API key created for it and seals it, and *)
(* the application's backend exchanges a one-time code for the sealed key.  *)
(* A background loop revokes the keys that were never delivered and deletes *)
(* the requests that came to term.                                          *)
(*                                                                          *)
(* Every handler reads the clock (_now() in api/v1/connect.py), then takes  *)
(* the row lock of the request, checks, writes and commits.  A call is      *)
(* therefore two steps here: its arrival, which captures the clock, and its *)
(* transaction, which is atomic under the row lock (READ COMMITTED, FOR     *)
(* UPDATE).  The purge transaction takes no lock when it lists the keys to  *)
(* revoke, so its listing and its commit are two steps.                     *)
(***************************************************************************)
EXTENDS Naturals, FiniteSets

CONSTANTS
    Clients,    \* declared applications (connect_clients)
    Users,      \* Keycloak users
    Requests,   \* request references, each drawn at most once
    Keys,       \* API key identifiers, each inserted at most once
    Calls,      \* slots for HTTP calls in progress
    Purgers,    \* backend processes, each of which runs one purge loop
    PendingTtl, \* PENDING_TTL_SECONDS, in ticks
    CodeTtl,    \* CODE_TTL_SECONDS, in ticks
    MaxTime,    \* bound of the clock (model checking only)
    None        \* the SQL NULL

ASSUME NoneAssumption == None \notin Clients \cup Users \cup Requests \cup Keys

ASSUME TimeAssumption ==
    /\ PendingTtl \in Nat \ {0}
    /\ CodeTtl \in Nat \ {0}
    /\ MaxTime \in Nat

VARIABLES
    now,        \* the clock every handler reads
    enabled,    \* the applications whose "active" column is TRUE
    req,        \* the rows of connect_requests
    apiKey,     \* the rows of api_keys inserted by this flow
    call,       \* the HTTP calls in progress
    purge,      \* the purge transactions
    tokens,     \* requests whose browser has received the unsealed token
    codes,      \* requests whose code has reached the application
    received,   \* keys whose sealed token an application has received
    delivered,  \* keys whose request was once marked delivered (history)
    replayed    \* requests for which a connect_code_replayed anomaly is recorded

vars == <<now, enabled, req, apiKey, call, purge,
          tokens, codes, received, delivered, replayed>>

-----------------------------------------------------------------------------
(* Rows and calls *)

Status == {"absent", "pending", "denied", "sealed", "delivered", "deleted"}

\* A row of connect_requests.  jwe tells whether sealed_jwe is NOT NULL;
\* codeExp is code_expires_at, 0 as long as there is no code.
Row == [status : Status,
        client : Clients \cup {None},
        user   : Users \cup {None},
        key    : Keys \cup {None},
        jwe    : BOOLEAN,
        expires : Nat,
        codeExp : Nat]

NoRow(s) == [status |-> s, client |-> None, user |-> None, key |-> None,
             jwe |-> FALSE, expires |-> 0, codeExp |-> 0]

ApiKeyRow == [state : {"absent", "active", "revoked"}, owner : Users \cup {None}]

BrowserOps == {"open", "deny", "createKey", "seal"}
Ops == BrowserOps \cup {"push", "exchange"}

\* A call in progress: what was called, with which arguments, and the clock it
\* read.  proof says whether the redirect_uri and the PKCE verifier presented
\* with a code are those of the request; key is the key whose sealed token an
\* exchange is about to answer with.
CallRecord == [phase : {"running", "answering"}, op : Ops, r : Requests,
               user : Users \cup {None}, client : Clients,
               proof : BOOLEAN, at : Nat, key : Keys \cup {None}]

NoCall == [phase |-> "idle"]

Asleep == [phase |-> "asleep"]
\* Its task is over: the process purges no more.
Ended == [phase |-> "ended"]
PurgeRecord == [phase : {"listed"}, at : Nat, keys : SUBSET Keys]

Running(c, op) == call[c].phase = "running" /\ call[c].op = op

-----------------------------------------------------------------------------
Init ==
    /\ now = 0
    /\ enabled = Clients
    /\ req = [r \in Requests |-> NoRow("absent")]
    /\ apiKey = [k \in Keys |-> [state |-> "absent", owner |-> None]]
    /\ call = [c \in Calls |-> NoCall]
    /\ purge = [p \in Purgers |-> Asleep]
    /\ tokens = {} /\ codes = {} /\ received = {}
    /\ delivered = {} /\ replayed = {}

history == <<tokens, codes, received, delivered, replayed>>

Tick ==
    /\ now < MaxTime
    /\ now' = now + 1
    /\ UNCHANGED <<enabled, req, apiKey, call, purge, history>>

\* update_client: an administrator disables or re-enables an application.
UpdateClient(cl) ==
    /\ enabled' = IF cl \in enabled THEN enabled \ {cl} ELSE enabled \cup {cl}
    /\ UNCHANGED <<now, req, apiKey, call, purge, history>>

-----------------------------------------------------------------------------
(* Arrival of a call: the clock is read before the row is locked *)

Arrive(c, op, r, u, cl, ok) ==
    /\ call[c] = NoCall
    /\ call' = [call EXCEPT ![c] = [phase |-> "running", op |-> op, r |-> r,
                                    user |-> u, client |-> cl, proof |-> ok,
                                    at |-> now, key |-> None]]
    /\ UNCHANGED <<now, enabled, req, apiKey, purge, history>>

\* POST /connect/par: the application is looked up outside the transaction
\* that inserts the request; the reference is freshly drawn.
ArrivePush(c, r, cl) ==
    /\ cl \in enabled
    /\ req[r].status = "absent"
    /\ \A d \in Calls : Running(d, "push") => call[d].r # r
    /\ now + PendingTtl <= MaxTime
    /\ Arrive(c, "push", r, None, cl, TRUE)

\* The browser routes: any logged-in user who knows the reference may call
\* them, in any order, with any client_id.
ArriveBrowser(c, op, r, u, cl) ==
    /\ req[r].status # "absent"
    /\ Arrive(c, op, r, u, cl, TRUE)

\* POST /connect/token with the code of request r.
ArriveExchange(c, r, cl, ok) ==
    /\ r \in codes
    /\ Arrive(c, "exchange", r, None, cl, ok)

-----------------------------------------------------------------------------
(* The transactions of the calls *)

Done(c) == call' = [call EXCEPT ![c] = NoCall]
Answering(c) == call' = [call EXCEPT ![c].phase = "answering"]

\* create_request: the row is inserted pending, for PENDING_TTL_SECONDS from
\* the clock the handler read.
CreateRequest(c) ==
    /\ Running(c, "push")
    /\ req' = [req EXCEPT ![call[c].r] =
                 [status |-> "pending", client |-> call[c].client, user |-> None, key |-> None,
                  jwe |-> FALSE, expires |-> call[c].at + PendingTtl, codeExp |-> 0]]
    /\ Done(c)
    /\ UNCHANGED <<now, enabled, apiKey, purge, history>>

\* _check_usable: an active application, presented with its own identifier, a
\* request that had not expired when the handler read the clock, not answered.
CheckUsable(row, cl, at) ==
    /\ row.client \in enabled
    /\ row.client = cl
    /\ at < row.expires
    /\ row.status = "pending"

\* A mistake: any user may take over a pending request.
LockedForAnyone(c) == CheckUsable(req[call[c].r], call[c].client, call[c].at)

\* lock_request_for_user: the first user who touches the request owns it.
LockedFor(c) ==
    /\ CheckUsable(req[call[c].r], call[c].client, call[c].at)
    /\ req[call[c].r].user \in {None, call[c].user}

OpenRequest(c) ==
    /\ Running(c, "open")
    /\ LockedFor(c)
    /\ req' = [req EXCEPT ![call[c].r].user = call[c].user]
    /\ Done(c)
    /\ UNCHANGED <<now, enabled, apiKey, purge, history>>

DenyRequest(c) ==
    /\ Running(c, "deny")
    /\ LockedFor(c)
    /\ req' = [req EXCEPT ![call[c].r].user = call[c].user,
                          ![call[c].r].status = "denied"]
    /\ Done(c)
    /\ UNCHANGED <<now, enabled, apiKey, purge, history>>

\* create_connect_api_key: one key per request, owned by the user.  Permissions
\* and lifetime are abstracted: a call that exceeds them is refused (Abort).
CreateConnectApiKey(c, k) ==
    /\ Running(c, "createKey")
    /\ LockedFor(c)
    /\ req[call[c].r].key = None
    /\ apiKey[k].state = "absent"
    /\ apiKey' = [apiKey EXCEPT ![k] = [state |-> "active", owner |-> call[c].user]]
    /\ req' = [req EXCEPT ![call[c].r].user = call[c].user,
                          ![call[c].r].key = k]
    /\ Answering(c)
    /\ UNCHANGED <<now, enabled, purge, history>>

\* A mistake: the key is not required before the seal.
SealWithoutKey(c) ==
    /\ Running(c, "seal")
    /\ LockedFor(c)
    /\ req' = [req EXCEPT ![call[c].r].user = call[c].user,
                          ![call[c].r].status = "sealed",
                          ![call[c].r].jwe = TRUE,
                          ![call[c].r].codeExp = call[c].at + CodeTtl]
    /\ Answering(c)
    /\ UNCHANGED <<now, enabled, apiKey, purge, history>>

\* seal_request: the sealed token and the hash of a fresh code are stored.
SealRequest(c) ==
    /\ Running(c, "seal")
    /\ LockedFor(c)
    /\ req[call[c].r].key # None
    /\ req' = [req EXCEPT ![call[c].r].user = call[c].user,
                          ![call[c].r].status = "sealed",
                          ![call[c].r].jwe = TRUE,
                          ![call[c].r].codeExp = call[c].at + CodeTtl]
    /\ Answering(c)
    /\ UNCHANGED <<now, enabled, apiKey, purge, history>>

\* A mistake: an exchange does not look for an earlier one.
ExchangeableAgain(row, c) ==
    /\ row.status \in {"sealed", "delivered"}
    /\ call[c].at < row.codeExp
    /\ row.client = call[c].client
    /\ call[c].proof

\* _rejection returned None: the code is that of a sealed request, in time,
\* with the client_id, redirect_uri and verifier of the request.  Whether the
\* application is still active is not looked at.
Exchangeable(row, c) ==
    /\ row.status = "sealed"
    /\ call[c].at < row.codeExp
    /\ row.client = call[c].client
    /\ call[c].proof

\* _deliver: the sealed token is erased by the write that marks it delivered.
ExchangeCode(c) ==
    LET row == req[call[c].r] IN
    /\ Running(c, "exchange")
    /\ Exchangeable(row, c)
    /\ req' = [req EXCEPT ![call[c].r].status = "delivered",
                          ![call[c].r].jwe = FALSE]
    /\ delivered' = delivered \cup {row.key}
    /\ call' = [call EXCEPT ![c].phase = "answering", ![c].key = row.key]
    /\ UNCHANGED <<now, enabled, apiKey, purge, tokens, codes, received, replayed>>

\* _record_rejection of a code that was already exchanged, by the loser of two
\* concurrent exchanges too: the anomaly is written after the transaction.
RecordReplay(c) ==
    /\ Running(c, "exchange")
    /\ req[call[c].r].status = "delivered"
    /\ replayed' = replayed \cup {call[c].r}
    /\ Done(c)
    /\ UNCHANGED <<now, enabled, req, apiKey, purge, tokens, codes, received, delivered>>

\* A check fails, the client disconnects, the database or the process fails
\* before the commit: nothing is written.
Abort(c) ==
    /\ call[c].phase = "running"
    /\ Done(c)
    /\ UNCHANGED <<now, enabled, req, apiKey, purge, history>>

\* The answer of a committed call reaches its caller.
Answer(c) ==
    /\ call[c].phase = "answering"
    /\ tokens' = IF call[c].op = "createKey" THEN tokens \cup {call[c].r} ELSE tokens
    /\ codes' = IF call[c].op = "seal" THEN codes \cup {call[c].r} ELSE codes
    /\ received' = IF call[c].op = "exchange" THEN received \cup {call[c].key} ELSE received
    /\ Done(c)
    /\ UNCHANGED <<now, enabled, req, apiKey, purge, delivered, replayed>>

\* It is lost: the caller never learns what was committed.
LoseAnswer(c) ==
    /\ call[c].phase = "answering"
    /\ Done(c)
    /\ UNCHANGED <<now, enabled, req, apiKey, purge, history>>

-----------------------------------------------------------------------------
(* Keys are also revoked by their owner, from the API keys page *)

RevokeApiKey(k) ==
    /\ apiKey[k].state = "active"
    /\ apiKey' = [apiKey EXCEPT ![k].state = "revoked"]
    /\ UNCHANGED <<now, enabled, req, call, purge, history>>

-----------------------------------------------------------------------------
(* purge_expired_requests *)

\* A mistake: the keys of sealed requests are taken for delivered ones.
UndeliveredPending(row, at) ==
    row.expires <= at /\ row.status = "pending" /\ row.key # None

Undelivered(row, at) ==
    /\ row.expires <= at
    /\ row.status \in {"pending", "sealed"}
    /\ row.key # None

\* db_list_expired_undelivered_keys: the snapshot of the first statement.
PurgeList(p) ==
    /\ purge[p] = Asleep
    /\ purge' = [purge EXCEPT ![p] =
                   [phase |-> "listed", at |-> now,
                    keys |-> {req[r].key : r \in {q \in Requests : Undelivered(req[q], now)}}]]
    /\ UNCHANGED <<now, enabled, req, apiKey, call, history>>

ExpiredRow(row, at) ==
    row.status \notin {"absent", "deleted"} /\ row.expires <= at

\* The listed keys that are still active are revoked, then every request that
\* came to term is deleted, whatever its status.
PurgeCommit(p) ==
    /\ purge[p].phase = "listed"
    /\ apiKey' = [k \in Keys |->
                    IF k \in purge[p].keys /\ apiKey[k].state = "active"
                      THEN [apiKey[k] EXCEPT !.state = "revoked"] ELSE apiKey[k]]
    /\ req' = [r \in Requests |->
                 IF ExpiredRow(req[r], purge[p].at) THEN NoRow("deleted") ELSE req[r]]
    /\ purge' = [purge EXCEPT ![p] = Asleep]
    /\ UNCHANGED <<now, enabled, call, history>>

\* The database is unreachable or the process stops: the purge is put off.
PurgeFail(p) ==
    /\ purge[p].phase = "listed"
    /\ purge' = [purge EXCEPT ![p] = Asleep]
    /\ UNCHANGED <<now, enabled, req, apiKey, call, history>>

\* get_pool raises while a pairing renews the pool, or no connection of it is
\* ever free: the loop, which catches the errors of the database only, purges no
\* more until the backend is started again.
PurgeEnd(p) ==
    /\ purge[p] = Asleep
    /\ purge' = [purge EXCEPT ![p] = Ended]
    /\ UNCHANGED <<now, enabled, req, apiKey, call, history>>

PurgeRestart(p) ==
    /\ purge[p] = Ended
    /\ purge' = [purge EXCEPT ![p] = Asleep]
    /\ UNCHANGED <<now, enabled, req, apiKey, call, history>>

-----------------------------------------------------------------------------
Arrival(c) ==
    \E r \in Requests, cl \in Clients :
        \/ ArrivePush(c, r, cl)
        \/ \E op \in BrowserOps, u \in Users : ArriveBrowser(c, op, r, u, cl)
        \/ \E ok \in BOOLEAN : ArriveExchange(c, r, cl, ok)

Transaction(c) ==
    \/ CreateRequest(c) \/ OpenRequest(c) \/ DenyRequest(c)
    \/ \E k \in Keys : CreateConnectApiKey(c, k)
    \/ SealRequest(c) \/ ExchangeCode(c) \/ RecordReplay(c) \/ Abort(c)

PurgeLoop(p) ==
    PurgeList(p) \/ PurgeCommit(p) \/ PurgeFail(p) \/ PurgeEnd(p) \/ PurgeRestart(p)

Next ==
    \/ Tick
    \/ \E cl \in Clients : UpdateClient(cl)
    \/ \E c \in Calls : Arrival(c) \/ Transaction(c) \/ Answer(c) \/ LoseAnswer(c)
    \/ \E k \in Keys : RevokeApiKey(k)
    \/ \E p \in Purgers : PurgeLoop(p)

Spec == Init /\ [][Next]_vars

\* The pages of the frontend seal the token that createKey answered, so they
\* call the sealing route after it.
SealsAfterToken ==
    \A c \in Calls : call[c] = NoCall /\ call'[c] # NoCall
                       => (call'[c].op = "seal" => call'[c].r \in tokens)

\* Time passes, and a purge loop that is not over comes round every minute: a
\* purge the database failed is retried, and the database answers some day.
PurgeFairness ==
    /\ WF_vars(Tick)
    /\ \A p \in Purgers : WF_vars(PurgeList(p)) /\ SF_vars(PurgeCommit(p))

FairSpec == Init /\ [][Next /\ SealsAfterToken]_vars /\ PurgeFairness

-----------------------------------------------------------------------------
(* Properties *)

\* The state of the flow is well formed.
TypeOK ==
    /\ now \in Nat
    /\ enabled \subseteq Clients
    /\ req \in [Requests -> Row]
    /\ apiKey \in [Keys -> ApiKeyRow]
    /\ call \in [Calls -> CallRecord \cup {NoCall}]
    /\ purge \in [Purgers -> PurgeRecord \cup {Asleep, Ended}]
    /\ tokens \subseteq Requests /\ codes \subseteq Requests
    /\ received \subseteq Keys /\ delivered \subseteq Keys
    /\ replayed \subseteq Requests

\* The calls about to answer an exchange with the sealed token of key k.
InFlight(k) == {c \in Calls : call[c].phase = "answering"
                             /\ call[c].op = "exchange" /\ call[c].key = k}

\* The sealed token of a key is handed over at most once, however many
\* exchanges of its code run at the same time or come back later
\* (connect_exchange: "Le scellé est remis UNE fois, puis effacé").
OneDelivery ==
    \A k \in Keys : \A c, d \in InFlight(k) : c = d /\ k \notin received

\* A request and its key have the same owner, and two requests never share a
\* key, whoever raced to open the request or to create the key.
KeyOfItsOwner ==
    \A r \in Requests : req[r].key # None =>
        /\ apiKey[req[r].key].owner = req[r].user
        /\ req[r].user # None
        /\ \A s \in Requests : req[s].key = req[r].key => s = r

\* connect_requests_sealed_complete and connect_requests_delivered_erased: a
\* sealed request has a key, a sealed token and a code; the sealed token exists
\* in no other state.
RowConsistent ==
    \A r \in Requests :
        /\ req[r].status \in {"sealed", "delivered"} => req[r].key # None /\ req[r].codeExp > 0
        /\ req[r].jwe <=> req[r].status = "sealed"

\* However late the transaction that seals a request commits, its code dies less
\* than CodeTtl after the term of the request.
CodeWindow ==
    \A r \in Requests :
        req[r].codeExp # 0 => req[r].codeExp < req[r].expires + CodeTtl

FinalAnswerStep ==
    \A r \in Requests : req'[r] # req[r] /\ req'[r].status # "deleted" =>
         /\ <<req[r].status, req'[r].status>> \in
               {<<"absent", "pending">>, <<"pending", "pending">>, <<"pending", "denied">>,
                <<"pending", "sealed">>, <<"sealed", "delivered">>}
         /\ req[r].user \in {None, req'[r].user}
         /\ req[r].key \in {None, req'[r].key}

\* What the user answered is final: the first of two concurrent answers wins, a
\* request never goes back, and its user and key never change while it exists.
AnswerIsFinal == [][FinalAnswerStep]_vars

\* As long as the purge loop of one process goes on, a key that was sealed ends
\* up delivered or revoked: the sealing browser held the token before the term,
\* so the purge that deletes the request has listed its key (run_purge_loop,
\* which nothing starts again when get_pool has ended it).
Sealed(k) == \E r \in Requests : req[r].status = "sealed" /\ req[r].key = k
APurgeGoesOn == \E p \in Purgers : <>[](purge[p] # Ended)
SealedSettles ==
    APurgeGoesOn =>
        \A k \in Keys : Sealed(k) ~> (k \in delivered \/ apiKey[k].state = "revoked")

-----------------------------------------------------------------------------
(* What the documentation says, and the code does not do *)

\* docs/vault.md:156: a key created but never exchanged is revoked at the term
\* of its request.  One whose request was denied meanwhile is not.
DeniedKeyRevoked ==
    \A k \in Keys : (\E r \in Requests : req[r].status = "denied" /\ req[r].key = k)
                      ~> apiKey[k].state = "revoked"

\* connect_exchange.py:146: only a key that nobody holds is revoked by the purge.
PurgeSparesDelivered ==
    [][\A k \in delivered :
         apiKey[k].state = "active" /\ apiKey'[k].state = "revoked" => UNCHANGED purge]_vars

=============================================================================
