----------------------------- MODULE WebSessions -----------------------------
(***************************************************************************)
(* The session store of the web server (internal/web/auth.go): cookie      *)
(* sessions in memory, written to web-sessions.json by every operation     *)
(* that issues or revokes one, read back when the process starts again.    *)
(* The store's lock is held from the change to the end of its write, so an *)
(* operation is one step.  A token is the number of its Create.            *)
(***************************************************************************)
EXTENDS Naturals, FiniteSets

CONSTANT MaxTokens      \* bound: sessions issued over the run

ASSUME TokensAssumption == MaxTokens \in Nat

VARIABLES issued,       \* how many tokens were handed out
          live,         \* SessionStore.sessions
          onDisk,       \* the tokens in web-sessions.json
          expired,      \* tokens whose expiresAt has passed
          revoked,      \* tokens a user or a password reset has ended
          unsaved       \* some atomicWrite of the store failed

sessionVars == <<issued, live, onDisk, expired, revoked, unsaved>>

Tokens == 1 .. MaxTokens

SessionsInit ==
    /\ issued = 0 /\ live = {} /\ onDisk = {}
    /\ expired = {} /\ revoked = {} /\ unsaved = FALSE

(* persistLocked: the whole store, expired entries included; best effort. *)
Persist(sessions, ok) ==
    /\ onDisk' = IF ok THEN sessions ELSE onDisk
    /\ unsaved' = (unsaved \/ ~ok)

Valid(token) == token \in live \ expired

Create(ok) ==
    /\ issued < MaxTokens
    /\ issued' = issued + 1
    /\ live' = live \union {issued + 1}
    /\ Persist(live', ok)
    /\ UNCHANGED <<expired, revoked>>

(* Mutant of Logout: the store is not written. *)
LogoutInMemory(token, ok) ==
    /\ Valid(token)
    /\ live' = live \ {token}
    /\ revoked' = revoked \union {token}
    /\ UNCHANGED <<issued, onDisk, expired, unsaved>>

(* handleLogout: a token that does not validate is not logged out, only its
   expired entry is dropped (by Validate). *)
Logout(token, ok) ==
    /\ Valid(token)
    /\ live' = live \ {token}
    /\ Persist(live', ok)
    /\ revoked' = revoked \union {token}
    /\ UNCHANGED <<issued, expired>>

Validate(token) ==
    /\ token \in live \intersect expired
    /\ live' = live \ {token}
    /\ UNCHANGED <<issued, onDisk, expired, revoked, unsaved>>

(* handleReset: Clear, then a session for the browser that asked.  Other
   requests may come between the two; a Create of theirs survives. *)
Clear(ok) ==
    /\ revoked' = revoked \union live
    /\ live' = {}
    /\ Persist({}, ok)
    /\ UNCHANGED <<issued, expired>>

Expire ==
    /\ \E token \in (1 .. issued) \ expired : expired' = expired \union {token}
    /\ UNCHANGED <<issued, live, onDisk, revoked, unsaved>>

(* The hourly cleanup drops expired entries, in memory only. *)
Cleanup ==
    /\ live \intersect expired # {}
    /\ live' = live \ expired
    /\ UNCHANGED <<issued, onDisk, expired, revoked, unsaved>>

(* NewSessionStoreAt, when the process starts again. *)
LoadSessions ==
    /\ live' = onDisk \ expired
    /\ UNCHANGED <<issued, onDisk, expired, revoked, unsaved>>

SessionsAge == Expire \/ Cleanup \/ \E token \in Tokens : Validate(token)

===============================================================================
