------------------------------ MODULE GoSession ------------------------------
(* The session store of src/Go/Session: a manager (memory or redis) and its   *)
(* sessions.  Every method holds its lock from the first line to the last, so  *)
(* a call is one step.  redis is external: SET may fail before or after it is  *)
(* carried out.  A session of the redis manager has no pool, because Init      *)
(* drops the one myPool makes; one built with NewRedisSession has it.          *)
EXTENDS Naturals

CONSTANTS
  SessionIds,   \* what uuid.NewV4 hands out
  Keys, Vals,   \* contents of a session
  NoVal,        \* a key that is not in the map
  MaxActive     \* connections of the pool: 1000

VARIABLES
  mgr,          \* the manager: "none" before Init, "nil" for an unknown provider
  session,      \* the sessions by their id
  stored,       \* what redis holds for each id
  active,       \* connections taken from the pool, never given back
  panicked,     \* a nil pointer was followed
  failed        \* sessions with a Save that returned an error since the last good one

sessionVars == <<mgr, session, stored, active, panicked, failed>>

NoKeys == [k \in Keys |-> NoVal]

\* NewMemorySession, NewRedisSession.
NewSession(pool) == [made |-> TRUE, data |-> NoKeys, flag |-> "None", pool |-> pool]

SessionInit ==
  /\ mgr = "none"
  /\ session = [id \in SessionIds |-> [NewSession("nil") EXCEPT !.made = FALSE]]
  /\ stored = [id \in SessionIds |-> NoKeys]
  /\ active = 0 /\ panicked = FALSE /\ failed = {}

\* The sessions are made with a nil pool, whatever Init was given.
MgrInit(provider) ==
  /\ mgr = "none"
  /\ mgr' = IF provider \in {"memory", "redis"} THEN provider ELSE "nil"
  /\ UNCHANGED <<session, stored, active, panicked, failed>>

CreateSession(id) ==
  /\ mgr \in {"memory", "redis"} /\ ~session[id].made
  /\ session' = [session EXCEPT ![id] = NewSession("nil")]
  /\ UNCHANGED <<mgr, stored, active, panicked, failed>>

\* Init reports no error for a provider it does not know.
CreateWithoutMgr ==
  /\ mgr = "nil"
  /\ panicked' = TRUE
  /\ UNCHANGED <<mgr, session, stored, active, failed>>

\* A session made by the caller, with a pool.
CreateDirectly(id) ==
  /\ mgr = "redis" /\ ~session[id].made
  /\ session' = [session EXCEPT ![id] = NewSession("pool")]
  /\ UNCHANGED <<mgr, stored, active, panicked, failed>>

Set(id, key, value) ==
  /\ session[id].made
  /\ session' = [session EXCEPT ![id].data[key] = value, ![id].flag = "Modify"]
  /\ UNCHANGED <<mgr, stored, active, panicked, failed>>

Del(id, key) ==
  /\ session[id].made
  /\ session' = [session EXCEPT ![id].data[key] = NoVal, ![id].flag = "Modify"]
  /\ UNCHANGED <<mgr, stored, active, panicked, failed>>

\* Save of a redis session whose data changed.  The connection is not closed,
\* so the pool runs dry; the flag is cleared before err is looked at.  A Save
\* that returns earlier, as nothing has changed or with the error of
\* json.Marshal, leaves all as it is.
Save(id) ==
  /\ session[id].made /\ mgr = "redis" /\ session[id].flag = "Modify"
  /\ IF session[id].pool = "nil"
       THEN panicked' = TRUE /\ UNCHANGED <<session, stored, active, failed>>
       ELSE /\ session' = [session EXCEPT ![id].flag = "None"]
            /\ \E err \in BOOLEAN, applied \in BOOLEAN :
                 /\ ~err => applied
                 /\ active = MaxActive => err /\ ~applied
                 /\ active' = IF active = MaxActive THEN active ELSE active + 1
                 /\ stored' = IF applied THEN [stored EXCEPT ![id] = session[id].data] ELSE stored
                 /\ failed' = IF err THEN failed \cup {id} ELSE failed \ {id}
            /\ UNCHANGED panicked
  /\ UNCHANGED mgr

SessionNext ==
  /\ ~panicked
  /\ \/ \E provider \in {"memory", "redis", "other"} : MgrInit(provider)
     \/ CreateWithoutMgr
     \/ \E id \in SessionIds :
          \/ CreateSession(id) \/ CreateDirectly(id) \/ Save(id)
          \/ \E k \in Keys : Del(id, k) \/ \E v \in Vals : Set(id, k, v)

\* A redis session that says it is unchanged is what redis holds, unless its
\* last Save failed: then the flag is cleared all the same and the change is
\* never saved again (redis_session.go:114).
SavedIfUnmodified ==
  mgr = "redis" => \A id \in SessionIds :
    session[id].flag = "None" /\ id \notin failed => stored[id] = session[id].data
=============================================================================
