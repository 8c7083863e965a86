------------------------------- MODULE Stores -------------------------------
(***************************************************************************)
(* pkg/boot/store.go: named instances with a default.  A store is a value, *)
(* and what its methods do, each under the mutex of the store, a function  *)
(* of it; RedisStore indexes its clients by a name and a database number,  *)
(* with a default database for each name.                                  *)
(***************************************************************************)
CONSTANTS Unnamed, \* the empty string
          NoValue  \* not found: Get returns FALSE, MustGet and Default panic

Put(f, x, v) == [y \in DOMAIN f \cup {x} |-> IF y = x THEN v ELSE f[y]]
Lookup(f, x) == IF x \in DOMAIN f THEN f[x] ELSE NoValue
Empty == [x \in {} |-> NoValue]

\* NewStore(name), NewStore()
NewStore(name) == [instances |-> Empty, default |-> name]

StoreSet(st, name, v) ==
    [instances |-> Put(st.instances, name, v),
     default |-> IF st.default = Unnamed THEN name ELSE st.default]

StoreGet(st, name) == Lookup(st.instances, name)
StoreDefault(st) == StoreGet(st, st.default)

\* Mutant of StoreSetDefault: any name.
StoreSetAnyDefault(st, name) == [st EXCEPT !.default = name]

\* An error, and no change, if there is no such instance.
StoreSetDefault(st, name) ==
    IF name \in DOMAIN st.instances THEN [st EXCEPT !.default = name] ELSE st
-----------------------------------------------------------------------------
\* The default is <<>> or <<name>> until an instance is set that gives it a
\* database, and a key of the store from then on.
NewRedisStore(default) == [instances |-> Empty, dbOf |-> Empty, default |-> default]

RedisSet(st, name, db, v) ==
    [instances |-> Put(st.instances, <<name, db>>, v),
     dbOf |-> IF name \in DOMAIN st.dbOf THEN st.dbOf ELSE Put(st.dbOf, name, db),
     default |-> IF st.default \in {<<>>, <<name>>} THEN <<name, db>> ELSE st.default]

\* Get(name); Get(name, db) is a Lookup.
RedisGet(st, name) == IF name \in DOMAIN st.dbOf
                      THEN Lookup(st.instances, <<name, st.dbOf[name]>>)
                      ELSE NoValue
RedisDefault(st) == Lookup(st.instances, st.default)

\* It changes what Get(name) returns and leaves Default() alone.
RedisSetDefaultDb(st, name, db) ==
    IF <<name, db>> \in DOMAIN st.instances
    THEN [st EXCEPT !.dbOf = Put(@, name, db)] ELSE st
=============================================================================
