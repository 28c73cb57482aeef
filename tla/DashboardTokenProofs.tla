-------------------------- MODULE DashboardTokenProofs --------------------------
(***************************************************************************)
(* Proofs about DashboardToken, for any sets of tokens and any number of   *)
(* concurrent PUT handlers.                                                *)
(***************************************************************************)
EXTENDS DashboardToken, TLAPS

\* Every variable keeps its type, and every handler has the token it was sent.
THEOREM TokenTypes == TokenSpec => []TokenTypeOK
<1>1. TokenInit => TokenTypeOK
  BY DEF TokenInit, TokenTypeOK
<1>2. ASSUME TokenTypeOK, [TokenNext]_tvars PROVE TokenTypeOK'
  <2>a. NoToken \notin Generated \cup Chosen
    BY TokenAssumption
  <2>1. CASE \E e \in Chosen \cup {NoToken} : Boot(e)
    BY <1>2, <2>1 DEF Boot, putVars, TokenTypeOK
  <2>2. CASE BootEnv \/ BootPersisted
    BY <1>2, <2>2 DEF BootEnv, BootPersisted, putVars, TokenTypeOK, Tokens
  <2>3. ASSUME NEW g \in Generated, BootGenerate(g) PROVE TokenTypeOK'
    BY <1>2, <2>3, <2>a DEF BootGenerate, putVars, TokenTypeOK
  <2>4. CASE WriteTokenFile
    BY <1>2, <2>4 DEF WriteTokenFile, putVars, TokenTypeOK
  <2>5. CASE WriteTokenFileFails \/ TokenCrash
    BY <1>2, <2>5 DEF WriteTokenFileFails, TokenCrash, ProcessEnds, TokenTypeOK
  <2>6. CASE PersistToken
    BY <1>2, <2>6 DEF PersistToken, SetSetting, putVars, TokenTypeOK, Tokens
  <2>7. CASE PersistTokenFails
    BY <1>2, <2>7 DEF PersistTokenFails, SetSettingFails, SetSetting, ProcessEnds,
       TokenTypeOK, Tokens
  <2>8. ASSUME NEW q \in Requests, NEW t \in Chosen \cup {NoToken}, PutBegin(q, t) PROVE TokenTypeOK'
    BY <1>2, <2>8 DEF PutBegin, procVars, TokenTypeOK
  <2>9. ASSUME NEW q \in Requests, PutStore(q) PROVE TokenTypeOK'
    BY <1>2, <2>9 DEF PutStore, SetSetting, procVars, TokenTypeOK, Tokens
  <2>10. ASSUME NEW q \in Requests, PutStoreFails(q) PROVE TokenTypeOK'
    BY <1>2, <2>10 DEF PutStoreFails, SetSettingFails, SetSetting, PutReturn, procVars,
       TokenTypeOK, Tokens
  <2>11. ASSUME NEW q \in Requests, PutRest(q) \/ PutRestFails(q) \/ PutSet(q)
         PROVE  TokenTypeOK'
    BY <1>2, <2>11 DEF PutRest, PutRestFails, PutSet, PutReturn, procVars, TokenTypeOK, Tokens
  <2>12. CASE UNCHANGED tvars
    BY <1>2, <2>12 DEF tvars, procVars, putVars, TokenTypeOK
  <2> QED
    BY <1>2, <2>1, <2>2, <2>3, <2>4, <2>5, <2>6, <2>7, <2>8, <2>9, <2>10, <2>11, <2>12
       DEF TokenNext, BootNext, PutNext
<1> QED
  BY <1>1, <1>2, PTL DEF TokenSpec

-----------------------------------------------------------------------------
(***************************************************************************)
(* Where the live token comes from.                                        *)
(***************************************************************************)

\* The server runs with a token, a live token was stored before (or is that of
\* the environment), and so was the one a handler is about to make live.
LiveInv ==
    /\ FailClosed
    /\ LiveWasStored
    /\ dbToken # NoToken => dbToken \in stored
    /\ \A q \in Requests : qpc[q] \in {"rest", "set"} => pending[q] \in stored
    /\ pc \notin {"boot", "serving"} => env = NoToken
    /\ pc # "serving" => live = NoToken /\ \A q \in Requests : qpc[q] = "idle"

\* LiveInv is inductive, relative to the types.
LEMMA LiveStep == TokenTypeOK /\ LiveInv /\ [TokenNext]_tvars => LiveInv'
<1> SUFFICES ASSUME TokenTypeOK, LiveInv, [TokenNext]_tvars PROVE LiveInv'
  OBVIOUS
<1> USE DEF LiveInv, FailClosed, LiveWasStored
<1>a. NoToken \notin Generated \cup Chosen
  BY TokenAssumption
<1>1. CASE \E e \in Chosen \cup {NoToken} : Boot(e)
  BY <1>1 DEF Boot, putVars
<1>2. CASE BootEnv \/ BootPersisted
  BY <1>2 DEF BootEnv, BootPersisted, putVars
<1>3. CASE WriteTokenFile \/ \E g \in Generated : BootGenerate(g)
  BY <1>3 DEF WriteTokenFile, BootGenerate, putVars
<1>4. CASE WriteTokenFileFails \/ TokenCrash
  BY <1>4 DEF WriteTokenFileFails, TokenCrash, ProcessEnds
<1>5. CASE PersistToken
  BY <1>5 DEF PersistToken, SetSetting, putVars, TokenTypeOK
<1>6. CASE PersistTokenFails
  BY <1>6 DEF PersistTokenFails, SetSettingFails, SetSetting, ProcessEnds
<1>7. ASSUME NEW q \in Requests, NEW t \in Chosen \cup {NoToken}, PutBegin(q, t) PROVE LiveInv'
  BY <1>7 DEF PutBegin, Authorised, procVars, TokenTypeOK
<1>8. ASSUME NEW q \in Requests, PutStore(q) PROVE LiveInv'
  BY <1>8 DEF PutStore, SetSetting, procVars, TokenTypeOK
<1>9. ASSUME NEW q \in Requests, PutStoreFails(q) PROVE LiveInv'
  BY <1>9 DEF PutStoreFails, SetSettingFails, SetSetting, PutReturn, procVars, TokenTypeOK
<1>10. ASSUME NEW q \in Requests, PutRest(q) \/ PutRestFails(q) PROVE LiveInv'
  BY <1>10 DEF PutRest, PutRestFails, PutReturn, procVars, TokenTypeOK
<1>11. ASSUME NEW q \in Requests, PutSet(q) PROVE LiveInv'
  <2>1. pending[q] \in stored /\ pending[q] # NoToken /\ pc = "serving"
    BY <1>11, <1>a DEF PutSet, TokenTypeOK
  <2> QED
    BY <1>11, <2>1 DEF PutSet, PutReturn, TokenTypeOK
<1>12. CASE UNCHANGED tvars
  BY <1>12 DEF tvars, procVars, putVars
<1> QED
  BY <1>1, <1>2, <1>3, <1>4, <1>5, <1>6, <1>7, <1>8, <1>9, <1>10, <1>11, <1>12
     DEF TokenNext, BootNext, PutNext

\* The inductive invariant of this section holds.
THEOREM LiveInvariant == TokenSpec => []LiveInv
<1>1. TokenInit => LiveInv
  BY DEF TokenInit, LiveInv, FailClosed, LiveWasStored
<1> QED
  BY <1>1, LiveStep, TokenTypes, PTL DEF TokenSpec

\* The server never runs without a token.
THEOREM AlwaysFailClosed == TokenSpec => []FailClosed
<1>1. LiveInv => FailClosed
  BY DEF LiveInv
<1> QED
  BY <1>1, LiveInvariant, PTL

\* The live token was stored before it went live, or comes from the environment.
THEOREM LiveStored == TokenSpec => []LiveWasStored
<1>1. LiveInv => LiveWasStored
  BY DEF LiveInv
<1> QED
  BY <1>1, LiveInvariant, PTL

-----------------------------------------------------------------------------
(***************************************************************************)
(* Nobody is locked out, as long as the stored token can be read at start. *)
(***************************************************************************)

\* While a generated token makes its way to the database, nothing is stored; it is
\* in the file before it is stored.  What is stored can be looked up, and every
\* token of a handler was chosen.
KnownInv ==
    /\ dbToken # NoToken => dbToken \in {file} \cup chosen
    /\ pc \in {"file", "persist"} => dbToken = NoToken
    /\ pc = "persist" => file = gen
    /\ pc = "serving" => live \in Known

\* KnownInv is inductive, relative to LiveInv and the types.
LEMMA KnownStep ==
    "read" \notin Faults /\ TokenTypeOK /\ LiveInv /\ KnownInv /\ [TokenNext]_tvars
        => KnownInv'
<1> SUFFICES ASSUME "read" \notin Faults, TokenTypeOK, LiveInv, KnownInv, [TokenNext]_tvars
             PROVE  KnownInv'
  OBVIOUS
<1> USE DEF KnownInv, Known
<1>a. NoToken \notin Generated \cup Chosen
  BY TokenAssumption
<1>1. CASE \E e \in Chosen \cup {NoToken} : Boot(e)
  BY <1>1 DEF Boot, putVars
<1>2. CASE BootEnv \/ BootPersisted
  BY <1>2 DEF BootEnv, BootPersisted, putVars
<1>3. CASE WriteTokenFile \/ \E g \in Generated : BootGenerate(g)
  BY <1>3 DEF WriteTokenFile, BootGenerate, putVars
<1>4. CASE WriteTokenFileFails \/ TokenCrash
  BY <1>4 DEF WriteTokenFileFails, TokenCrash, ProcessEnds
<1>5. CASE PersistToken
  BY <1>5 DEF PersistToken, SetSetting, putVars, TokenTypeOK
<1>6. CASE PersistTokenFails
  BY <1>6 DEF PersistTokenFails, SetSettingFails, SetSetting, ProcessEnds
<1>7. ASSUME NEW q \in Requests, NEW t \in Chosen \cup {NoToken}, PutBegin(q, t) PROVE KnownInv'
  BY <1>7 DEF PutBegin, Authorised, procVars
<1>8. ASSUME NEW q \in Requests, PutStore(q) PROVE KnownInv'
  BY <1>8 DEF PutStore, SetSetting, procVars, TokenTypeOK, LiveInv
<1>9. ASSUME NEW q \in Requests, PutStoreFails(q) PROVE KnownInv'
  BY <1>9 DEF PutStoreFails, SetSettingFails, SetSetting, procVars, TokenTypeOK, LiveInv
<1>10. ASSUME NEW q \in Requests, PutRest(q) \/ PutRestFails(q) PROVE KnownInv'
  BY <1>10 DEF PutRest, PutRestFails, procVars
<1>11. ASSUME NEW q \in Requests, PutSet(q) PROVE KnownInv'
  <2>1. pending[q] \in chosen /\ pending[q] # NoToken
    BY <1>11, <1>a DEF PutSet, TokenTypeOK
  <2> QED
    BY <1>11, <2>1 DEF PutSet
<1>12. CASE UNCHANGED tvars
  BY <1>12 DEF tvars, procVars, putVars
<1> QED
  BY <1>1, <1>2, <1>3, <1>4, <1>5, <1>6, <1>7, <1>8, <1>9, <1>10, <1>11, <1>12
     DEF TokenNext, BootNext, PutNext

\* What is stored and what the server asks for can always be presented by an
\* operator, if the database can be read whenever the process starts.
THEOREM NeverLockedOut ==
    ASSUME "read" \notin Faults
    PROVE  TokenSpec => []NoLockout
<1>1. TokenInit => KnownInv
  BY DEF TokenInit, KnownInv
<1>2. TokenTypeOK /\ LiveInv /\ KnownInv /\ [TokenNext]_tvars => KnownInv'
  BY KnownStep
<1>3. KnownInv => NoLockout
  BY DEF KnownInv, NoLockout
<1> QED
  BY <1>1, <1>2, <1>3, TokenTypes, LiveInvariant, PTL DEF TokenSpec

\* Under the same condition only an operator's own choice replaces a stored token.
THEOREM StoredTokenKept ==
    ASSUME "read" \notin Faults
    PROVE  TokenSpec => PersistedKept
<1>1. TokenInit => KnownInv
  BY DEF TokenInit, KnownInv
<1>2. TokenTypeOK /\ LiveInv /\ KnownInv /\ [TokenNext]_tvars => KnownInv'
  BY KnownStep
<1>3. ASSUME TokenTypeOK, KnownInv, [TokenNext]_tvars
      PROVE  [dbToken # NoToken /\ dbToken' # dbToken => dbToken' \in chosen]_tvars
  <2> SUFFICES ASSUME TokenNext, dbToken # NoToken, dbToken' # dbToken
               PROVE  dbToken' \in chosen
    BY <1>3
  <2>1. pc \notin {"file", "persist"}
    BY <1>3 DEF KnownInv
  <2>2. PICK q \in Requests : PutStore(q) \/ PutStoreFails(q)
    BY <2>1 DEF TokenNext, BootNext, PutNext, Boot, BootEnv, BootPersisted, BootGenerate,
       WriteTokenFile, WriteTokenFileFails, PersistToken, PersistTokenFails, TokenCrash,
       PutBegin, PutRest, PutRestFails, PutSet
  <2> QED
    BY <1>3, <2>2 DEF PutStore, PutStoreFails, SetSettingFails, SetSetting, TokenTypeOK
<1> QED
  BY <1>1, <1>2, <1>3, TokenTypes, LiveInvariant, PTL DEF TokenSpec, PersistedKept
=============================================================================
