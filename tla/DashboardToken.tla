----------------------------- MODULE DashboardToken -----------------------------
(***************************************************************************)
(* The dashboard token: how ensureDashboardToken (main.go) chooses it at   *)
(* every start, how PUT /api/settings/general replaces it, and what is     *)
(* left in the database, in the token file and in memory when a step fails *)
(* or the process dies between two of them.                                *)
(***************************************************************************)
CONSTANTS
    Generated,  \* tokens the process may draw at random
    Chosen,     \* tokens an operator may choose, in the environment or by a PUT
    NoToken,    \* the empty string; a file that is absent or truncated
    Requests,   \* PUT handlers that may run at the same time
    Faults      \* which operations may fail: a subset of TokenFaults

TokenFaults == {"read", "write", "late", "file", "crash"}

ASSUME TokenAssumption ==
    /\ Generated \cap Chosen = {} /\ NoToken \notin Generated \cup Chosen
    /\ Faults \subseteq TokenFaults

VARIABLES
    dbToken,   \* settings row dashboard_token
    file,      \* content of <cloneDir>/dashboard_token
    live,      \* Server.tokenVal
    env,       \* DASHBOARD_TOKEN of the running process
    pc,        \* where main is: "down", "boot", "file", "persist", "serving"
    gen,       \* the token just generated
    qpc,       \* qpc[q]: where handler q is: "idle", "store", "rest", "set"
    pending,   \* pendingToken of handler q
    chosen,    \* history: tokens operators have asked for
    stored     \* history: tokens that have been in the database

procVars == <<live, env, pc, gen>>
putVars  == <<qpc, pending>>
tvars == <<dbToken, file, procVars, putVars, chosen, stored>>

Tokens == Generated \cup Chosen

\* The tokens an operator can present: the one in the environment, the one in the
\* token file, and those they set themselves.
Known == ({env, file} \cup chosen) \ {NoToken}

TokenInit ==
    /\ dbToken = NoToken /\ file = NoToken
    /\ live = NoToken /\ env = NoToken /\ pc = "down" /\ gen = NoToken
    /\ qpc = [q \in Requests |-> "idle"]
    /\ pending = [q \in Requests |-> NoToken]
    /\ chosen = {} /\ stored = {}

-----------------------------------------------------------------------------
(***************************************************************************)
(* The database: SetSetting is an upsert.  It may fail, and its context    *)
(* may also expire when the row is already written ("late").               *)
(***************************************************************************)
SetSetting(t) == dbToken' = t /\ stored' = stored \cup {t}

SetSettingFails(t) ==
    \/ "write" \in Faults /\ UNCHANGED <<dbToken, stored>>
    \/ "late" \in Faults /\ SetSetting(t)

-----------------------------------------------------------------------------
(***************************************************************************)
(* Start-up.                                                               *)
(***************************************************************************)

\* The process starts, in the environment the operator gives it.
Boot(e) ==
    /\ pc = "down"
    /\ pc' = "boot" /\ env' = e
    /\ UNCHANGED <<dbToken, file, live, gen, putVars, chosen, stored>>

BootEnv ==
    /\ pc = "boot" /\ env # NoToken
    /\ live' = env /\ pc' = "serving"
    /\ UNCHANGED <<dbToken, file, env, gen, putVars, chosen, stored>>

BootPersisted ==
    /\ pc = "boot" /\ env = NoToken
    /\ dbToken # NoToken
    /\ live' = dbToken /\ pc' = "serving"
    /\ UNCHANGED <<dbToken, file, env, gen, putVars, chosen, stored>>

\* Mutant: the persisted token is not looked for.
BootGenerate_Always(g) ==
    /\ pc = "boot" /\ env = NoToken
    /\ g \notin stored \cup {file}
    /\ gen' = g /\ pc' = "file"
    /\ UNCHANGED <<dbToken, file, live, env, putVars, chosen, stored>>

\* No token in the database, or GetSetting fails, which is not told apart: a new
\* random one.
BootGenerate(g) ==
    /\ pc = "boot" /\ env = NoToken
    /\ dbToken = NoToken \/ "read" \in Faults
    /\ g \notin stored \cup {file}
    /\ gen' = g /\ pc' = "file"
    /\ UNCHANGED <<dbToken, file, live, env, putVars, chosen, stored>>

\* os.WriteFile truncates, then writes.
WriteTokenFile ==
    /\ pc = "file"
    /\ file' = gen /\ pc' = "persist"
    /\ UNCHANGED <<dbToken, live, env, gen, putVars, chosen, stored>>

\* All memory is gone; a handler in flight ends with its process.
ProcessEnds ==
    /\ pc' = "down" /\ live' = NoToken /\ env' = NoToken /\ gen' = NoToken
    /\ qpc' = [q \in Requests |-> "idle"]
    /\ pending' = [q \in Requests |-> NoToken]

\* Mutant: a failed write is logged, and the start goes on.
WriteTokenFileFails_GoOn ==
    /\ pc = "file" /\ "file" \in Faults
    /\ pc' = "persist"
    /\ UNCHANGED <<dbToken, file, live, env, gen, putVars, chosen, stored>>

\* An error exits; the file may be truncated by then.
WriteTokenFileFails ==
    /\ pc = "file" /\ "file" \in Faults
    /\ file' \in {file, NoToken}
    /\ ProcessEnds
    /\ UNCHANGED <<dbToken, chosen, stored>>

\* Only now the database, and then the server.
PersistToken ==
    /\ pc = "persist"
    /\ SetSetting(gen)
    /\ live' = gen /\ pc' = "serving" /\ gen' = NoToken
    /\ UNCHANGED <<file, env, putVars, chosen>>

PersistTokenFails ==
    /\ pc = "persist"
    /\ SetSettingFails(gen)
    /\ ProcessEnds
    /\ UNCHANGED <<file, chosen>>

\* The process dies, perhaps in the middle of a write.
TokenCrash ==
    /\ "crash" \in Faults /\ pc # "down"
    /\ IF pc = "file" THEN file' \in {file, NoToken} ELSE UNCHANGED file
    /\ ProcessEnds
    /\ UNCHANGED <<dbToken, chosen, stored>>

-----------------------------------------------------------------------------
(***************************************************************************)
(* PUT /api/settings/general with a dashboard token.                       *)
(***************************************************************************)

\* authMiddleware: only a request that presents the live token gets through.
Authorised == pc = "serving" /\ live # NoToken /\ live \in Known

\* Mutant: the token goes live before anything is stored.
PutBegin_SetFirst(q, t) ==
    /\ Authorised /\ qpc[q] = "idle" /\ t # NoToken
    /\ qpc' = [qpc EXCEPT ![q] = "store"]
    /\ pending' = [pending EXCEPT ![q] = t]
    /\ live' = t
    /\ chosen' = chosen \cup {t}
    /\ UNCHANGED <<dbToken, file, env, pc, gen, stored>>

\* An empty dashboardToken is ignored.
PutBegin(q, t) ==
    /\ Authorised /\ qpc[q] = "idle" /\ t # NoToken
    /\ qpc' = [qpc EXCEPT ![q] = "store"]
    /\ pending' = [pending EXCEPT ![q] = t]
    /\ chosen' = chosen \cup {t}
    /\ UNCHANGED <<dbToken, file, procVars, stored>>

PutStore(q) ==
    /\ qpc[q] = "store"
    /\ SetSetting(pending[q])
    /\ qpc' = [qpc EXCEPT ![q] = "rest"]
    /\ UNCHANGED <<file, procVars, pending, chosen>>

PutReturn(q) ==
    /\ qpc' = [qpc EXCEPT ![q] = "idle"]
    /\ pending' = [pending EXCEPT ![q] = NoToken]

\* The token, or a setting written before it, cannot be stored: an error answer.
PutStoreFails(q) ==
    /\ qpc[q] = "store"
    /\ SetSettingFails(pending[q])
    /\ PutReturn(q)
    /\ UNCHANGED <<file, procVars, chosen>>

\* default_sync_interval, the setting after the token, is stored or not sent.
PutRest(q) ==
    /\ qpc[q] = "rest"
    /\ qpc' = [qpc EXCEPT ![q] = "set"]
    /\ UNCHANGED <<dbToken, file, procVars, pending, chosen, stored>>

PutRestFails(q) ==
    /\ qpc[q] = "rest" /\ "write" \in Faults
    /\ PutReturn(q)
    /\ UNCHANGED <<dbToken, file, procVars, chosen, stored>>

\* SetToken, once everything is stored.
PutSet(q) ==
    /\ qpc[q] = "set"
    /\ live' = pending[q]
    /\ PutReturn(q)
    /\ UNCHANGED <<dbToken, file, env, pc, gen, chosen, stored>>

-----------------------------------------------------------------------------
BootNext ==
    \/ BootEnv \/ BootPersisted \/ \E g \in Generated : BootGenerate(g)
    \/ WriteTokenFile \/ WriteTokenFileFails \/ PersistToken \/ PersistTokenFails

PutNext(q) ==
    \/ \E t \in Chosen \cup {NoToken} : PutBegin(q, t)
    \/ PutStore(q) \/ PutStoreFails(q) \/ PutRest(q) \/ PutRestFails(q) \/ PutSet(q)

TokenNext ==
    \/ \E e \in Chosen \cup {NoToken} : Boot(e)
    \/ BootNext \/ TokenCrash
    \/ \E q \in Requests : PutNext(q)

TokenSpec == TokenInit /\ [][TokenNext]_tvars

-----------------------------------------------------------------------------
(***************************************************************************)
(* Properties.                                                             *)
(***************************************************************************)

\* Variables keep their types, and a handler past its first step has a token.
TokenTypeOK ==
    /\ dbToken \in Tokens \cup {NoToken} /\ file \in Generated \cup {NoToken}
    /\ live \in Tokens \cup {NoToken} /\ env \in Chosen \cup {NoToken}
    /\ gen \in Generated \cup {NoToken}
    /\ pc \in {"down", "boot", "file", "persist", "serving"}
    /\ pc \in {"file", "persist"} => gen # NoToken
    /\ qpc \in [Requests -> {"idle", "store", "rest", "set"}]
    /\ pending \in [Requests -> Chosen \cup {NoToken}]
    /\ \A q \in Requests : qpc[q] # "idle" => pending[q] \in chosen
    /\ chosen \subseteq Chosen /\ stored \subseteq Tokens

\* Authentication is always on: the server never runs without a token
\* (main.go:849-855, 985-993).
FailClosed == pc = "serving" => live # NoToken

\* Nobody is locked out: what is stored, and what the server asks for, is a token
\* some operator can present, whichever step of the start or of a PUT failed or was
\* cut short by a crash, and whichever starts followed (main.go:1012-1018).
\* It needs a database that can be read at start-up ("read" not in Faults).
NoLockout ==
    /\ dbToken # NoToken => dbToken \in {file} \cup chosen
    /\ pc = "serving" => live \in Known

\* The live token is one that was stored first, or that of the environment: no
\* request can be made with a token that a failed write then loses
\* (settings_handlers.go:423-443).
LiveWasStored == live # NoToken => live \in stored \cup {env}

\* A stored token is only replaced by one an operator asked for: a restart never
\* generates a new one over it: "otherwise a persisted dashboard_token is used"
\* (main.go:985-989).  It needs a database that can be read at start-up.
PersistedKept ==
    [][dbToken # NoToken /\ dbToken' # dbToken => dbToken' \in chosen]_tvars

\* "so a persistence failure never leaves the running token out of sync with what
\* is stored" (settings_handlers.go:423-425): with no environment token and no PUT
\* in flight the server asks for the stored token.  It does not when the setting
\* written after the token fails, nor when two PUTs store and set in opposite orders.
LiveInSync ==
    (pc = "serving" /\ env = NoToken /\ \A q \in Requests : qpc[q] = "idle")
        => live = dbToken
=============================================================================
