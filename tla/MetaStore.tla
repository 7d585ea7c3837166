------------------------------ MODULE MetaStore ------------------------------
(***************************************************************************)
(* The schema meta store of package meta (src/document/meta/meta.go).      *)
(*                                                                         *)
(* Every Meta method runs inside the caller's KV transaction through a     *)
(* TxStructure: a counter key (nextGlobalID), the hash "dbs" whose fields  *)
(* are the databases, and one hash per database whose fields are its       *)
(* collections and their auto-increment counters.  Sessions (goroutines    *)
(* of the server and the DDL worker) open badger transactions, call Meta   *)
(* methods in them and commit.  A transaction reads its snapshot and its   *)
(* own writes; its commit aborts when a key it read was committed by       *)
(* another transaction after it started; a transaction without writes      *)
(* commits without a check.  The model records, per open transaction, the *)
(* keys committed since it began (stale) in place of badger's timestamps.  *)
(*                                                                         *)
(* TxStructure is not under src/: its hash operations are modelled from   *)
(* the structure package the code imports, in which every hash has a meta  *)
(* key holding its field count that HSet, HDel, HInc and HClear read and   *)
(* update.                                                                 *)
(***************************************************************************)
EXTENDS Naturals, FiniteSets, Sequences, TLC

SE == INSTANCE SequencesExt

CONSTANTS
  Sessions,    \* goroutines running meta transactions
  DBs,         \* database ids
  Colls,       \* collection ids
  MaxOps,      \* Meta calls per transaction
  MaxId,       \* bound on nextGlobalID and on the auto-increment counters
  None,        \* an absent key
  NoW,         \* a key the transaction has not written
  Info         \* the encoded DBInfo or CollectionInfo of a field

Hashes == {"dbs"} \cup DBs
Fields(h) == IF h = "dbs" THEN DBs ELSE Colls \cup {<<"auto", c>> : c \in Colls}
GidKey == <<"counter", "nextGlobalID">>
HMeta(h) == <<"meta", h>>
HField(h, f) == <<"field", h, f>>
Keys == {GidKey} \cup {HMeta(h) : h \in Hashes}
          \cup UNION {{HField(h, f) : f \in Fields(h)} : h \in Hashes}

VARIABLES
  kv,       \* committed value of each key
  tx,       \* tx[s]: s's open transaction (or st = "idle")
  gids,     \* history: global ids returned to committed transactions
  dupGid,   \* history: a committed global id was returned before
  autos,    \* history: <<collection, id>> pairs committed by GenAutoCollectionID
  dupAuto,  \* history: a committed auto id was returned before
  created,  \* history: collection ids ever created (ids are never reused)
  last      \* history: the writing Meta calls of the last committed transaction

vars == <<kv, tx, gids, dupGid, autos, dupAuto, created, last>>
hist == <<gids, dupGid, autos, dupAuto, created>>

Idle == [st |-> "idle", stale |-> {}, snap |-> [k \in Keys |-> None],
         r |-> {}, w |-> [k \in Keys |-> NoW], n |-> 0, log |-> <<>>, ids |-> {},
         aids |-> {}, newColls |-> {}]

TypeOK ==
  /\ kv \in [Keys -> {None, Info} \cup 0..MaxId \cup 1..2 * Cardinality(Colls)]
  /\ \A s \in Sessions : tx[s].st \in {"idle", "open"} /\ tx[s].r \subseteq Keys
  /\ gids \subseteq 1..MaxId /\ autos \subseteq Colls \X (1..MaxId)
  /\ {dupGid, dupAuto} \subseteq BOOLEAN

Init ==
  /\ kv = [k \in Keys |-> None]
  /\ tx = [s \in Sessions |-> Idle]
  /\ gids = {} /\ dupGid = FALSE
  /\ autos = {} /\ dupAuto = FALSE
  /\ created = {}
  /\ last = <<>>

-----------------------------------------------------------------------------
(* The transaction view and the TxStructure operations on it.  Each takes  *)
(* the transaction record V and returns the updated one.                   *)

Num(x) == IF x = None THEN 0 ELSE x
Rd(V, k) == IF V.w[k] # NoW THEN V.w[k] ELSE V.snap[k]
Touch(V, ks) == [V EXCEPT !.r = @ \cup ks]
Put(V, k, v) == [V EXCEPT !.w[k] = v]
Present(V, h) == {f \in Fields(h) : Rd(V, HField(h, f)) # None}

\* Inc: read the counter, write counter + n.
Inc(V, k, n) == Put(Touch(V, {k}), k, Num(Rd(V, k)) + n)

\* HSet (and HInc when v is the incremented value): a new field also
\* increments the hash's field count in its meta key.
HSet(V, h, f, v) ==
  LET fk == HField(h, f)
      mk == HMeta(h)
  IN IF Rd(V, fk) = None
       THEN Put(Put(Touch(V, {fk, mk}), mk, Num(Rd(V, mk)) + 1), fk, v)
       ELSE Put(Touch(V, {fk}), fk, v)

\* HDel: an existing field is deleted and the count decremented; the meta
\* key goes when the count reaches 0.
HDel(V, h, f) ==
  LET fk == HField(h, f)
      mk == HMeta(h)
      cnt == Num(Rd(V, mk)) - 1
  IN IF Rd(V, fk) = None
       THEN Touch(V, {fk})
       ELSE Put(Put(Touch(V, {fk, mk}), mk, IF cnt = 0 THEN None ELSE cnt),
                fk, None)

\* HClear: read the meta key; unless empty, iterate the fields (reading
\* each), delete them and the meta key.
HClear(V, h) ==
  LET P == {HField(h, f) : f \in Present(V, h)}
      V1 == Touch(V, {HMeta(h)} \cup P)
  IN IF Rd(V, HMeta(h)) = None
       THEN Touch(V, {HMeta(h)})
       ELSE [V1 EXCEPT !.w = [k \in Keys |->
                                IF k \in P \cup {HMeta(h)} THEN None
                                ELSE V1.w[k]]]

\* HGetAll: iterating the hash reads the fields present.
HGetAll(V, h) == Touch(V, {HField(h, f) : f \in Present(V, h)})

-----------------------------------------------------------------------------
(* The Meta methods, each a transformation of the transaction view V.      *)

\* checkDBExists / checkCollectionExists: HGet of the field.
DBExists(V, d) == Rd(V, HField("dbs", d)) # None
CollExists(V, d, c) == Rd(V, HField(d, c)) # None
CheckDB(V, d) == Touch(V, {HField("dbs", d)})
CheckColl(V, d, c) == Touch(CheckDB(V, d), {HField(d, c)})

\* The ids GenGlobalIDs(n) returns after the counter became newID.
NewIDs(newID, n) == newID - n + 1 .. newID

GenGlobalIDsBlind(V, n) ==
  LET newID == Num(Rd(V, GidKey)) + n
  IN [Put(V, GidKey, newID) EXCEPT !.ids = @ \cup NewIDs(newID, n)]

GenGlobalIDsOffByOne(V, n) ==
  LET newID == Num(Rd(V, GidKey)) + n
  IN [Inc(V, GidKey, n) EXCEPT !.ids = @ \cup (newID - n .. newID - 1)]

\* GenGlobalID (n = 1) and GenGlobalIDs(n): Inc under globalIDMutex, which
\* is released when the call returns, long before the commit.
GenGlobalIDs(V, n) ==
  LET newID == Num(Rd(V, GidKey)) + n
  IN [Inc(V, GidKey, n) EXCEPT !.ids = @ \cup NewIDs(newID, n)]

\* CreateDatabase: checkDBNotExists, then HSet(dbs, dbKey, info).
CreateDatabase(V, d) ==
  LET V1 == CheckDB(V, d)
  IN IF DBExists(V1, d) THEN V1 ELSE HSet(V1, "dbs", d, Info)

\* UpdateDatabase: checkDBExists, then HSet(dbs, dbKey, info).
UpdateDatabase(V, d) ==
  LET V1 == CheckDB(V, d)
  IN IF DBExists(V1, d) THEN HSet(V1, "dbs", d, Info) ELSE V1

\* CreateCollection: checkDBExists, checkCollectionNotExists, HSet.
CreateCollection(V, d, c) ==
  LET V1 == CheckColl(V, d, c)
  IN IF DBExists(V1, d) /\ ~CollExists(V1, d, c)
       THEN [HSet(V1, d, c, Info) EXCEPT !.newColls = @ \cup {c}]
       ELSE V1

\* UpdateCollection: both checks, then HSet of the existing field.
UpdateCollection(V, d, c) ==
  LET V1 == CheckColl(V, d, c)
  IN IF DBExists(V1, d) /\ CollExists(V1, d, c) THEN HSet(V1, d, c, Info) ELSE V1

DropDatabaseNoClear(V, d) ==
  LET V1 == CheckDB(V, d)
  IN IF DBExists(V1, d) THEN HDel(V1, "dbs", d) ELSE V1

\* DropDatabase: checkDBExists, HClear(dbKey), HDel(dbs, dbKey).
DropDatabase(V, d) ==
  LET V1 == CheckDB(V, d)
  IN IF DBExists(V1, d) THEN HDel(HClear(V1, d), "dbs", d) ELSE V1

\* DropCollection: both checks, HDel of the collection, and of its auto id
\* key when delAutoID.
DropCollection(V, d, c, delAutoID) ==
  LET V1 == CheckColl(V, d, c)
      V2 == HDel(V1, d, c)
  IN IF DBExists(V1, d) /\ CollExists(V1, d, c)
       THEN IF delAutoID THEN HDel(V2, d, <<"auto", c>>) ELSE V2
       ELSE V1

\* The auto id GenAutoCollectionID(step 1) returns.
AutoID(V, d, c) == Num(Rd(V, HField(d, <<"auto", c>>))) + 1

GenAutoCollectionIDBlind(V, d, c) ==
  LET V1 == CheckColl(V, d, c)
      id == AutoID(V, d, c)
  IN IF DBExists(V1, d) /\ CollExists(V1, d, c)
       THEN [IF id = 1 THEN HSet(V1, d, <<"auto", c>>, id)
             ELSE Put(V1, HField(d, <<"auto", c>>), id)
               EXCEPT !.aids = @ \cup {<<c, id>>}]
       ELSE V1

GenAutoCollectionIDCachedCheck(V, d, c) ==
  LET id == AutoID(V, d, c)
  IN IF DBExists(V, d) /\ CollExists(V, d, c)
       THEN [HSet(V, d, <<"auto", c>>, id) EXCEPT !.aids = @ \cup {<<c, id>>}]
       ELSE V

\* GenAutoCollectionID(step 1): both checks, then HInc of the auto id key.
GenAutoCollectionID(V, d, c) ==
  LET V1 == CheckColl(V, d, c)
      id == AutoID(V, d, c)
  IN IF DBExists(V1, d) /\ CollExists(V1, d, c)
       THEN [HSet(V1, d, <<"auto", c>>, id) EXCEPT !.aids = @ \cup {<<c, id>>}]
       ELSE V1

\* ListCollections: checkDBExists, HGetAll(dbKey).  ListDatabases:
\* HGetAll(dbs).  GetDatabase / GetCollection: HGets.  They only read.
ListCollections(V, d) ==
  LET V1 == CheckDB(V, d) IN IF DBExists(V1, d) THEN HGetAll(V1, d) ELSE V1
ListDatabases(V) == HGetAll(V, "dbs")
GetDatabase(V, d) == CheckDB(V, d)
GetCollection(V, d, c) == CheckColl(V, d, c)

\* A Meta call, as a tuple of the method's name and arguments.
Calls ==
  {<<"GenGlobalIDs", n>> : n \in {1, 2}} \cup {<<"ListDatabases">>}
  \cup {<<m, d>> : m \in {"CreateDatabase", "UpdateDatabase", "DropDatabase",
                          "ListCollections", "GetDatabase"}, d \in DBs}
  \cup {<<m, d, c>> : m \in {"CreateCollection", "UpdateCollection",
                             "GenAutoCollectionID", "GetCollection"},
                      d \in DBs, c \in Colls}
  \cup {<<"DropCollection", d, c, del>> : d \in DBs, c \in Colls, del \in BOOLEAN}

\* The methods that write nothing whatever the store holds.
ReadOnly == {"ListCollections", "ListDatabases", "GetDatabase", "GetCollection"}

\* The dispatch of a call to its method.
Apply(V, o) ==
  CASE o[1] = "GenGlobalIDs"        -> GenGlobalIDs(V, o[2])
    [] o[1] = "CreateDatabase"      -> CreateDatabase(V, o[2])
    [] o[1] = "UpdateDatabase"      -> UpdateDatabase(V, o[2])
    [] o[1] = "DropDatabase"        -> DropDatabase(V, o[2])
    [] o[1] = "ListCollections"     -> ListCollections(V, o[2])
    [] o[1] = "GetDatabase"         -> GetDatabase(V, o[2])
    [] o[1] = "ListDatabases"       -> ListDatabases(V)
    [] o[1] = "CreateCollection"    -> CreateCollection(V, o[2], o[3])
    [] o[1] = "UpdateCollection"    -> UpdateCollection(V, o[2], o[3])
    [] o[1] = "GenAutoCollectionID" -> GenAutoCollectionID(V, o[2], o[3])
    [] o[1] = "GetCollection"       -> GetCollection(V, o[2], o[3])
    [] o[1] = "DropCollection"      -> DropCollection(V, o[2], o[3], o[4])

\* The model's bounds on the inputs of a call: counters stay within MaxId,
\* and a collection id is created once (the code takes it from
\* GenGlobalID, so it is never reused).
Allowed(V, o) ==
  /\ o[1] = "GenGlobalIDs" => Num(Rd(V, GidKey)) + o[2] <= MaxId
  /\ o[1] = "GenAutoCollectionID" => AutoID(V, o[2], o[3]) <= MaxId
  /\ o[1] = "CreateCollection" => o[3] \notin created \cup V.newColls

-----------------------------------------------------------------------------
(* Sessions.                                                               *)

\* NewTransaction(true): the snapshot is taken.
Begin(s) ==
  /\ tx[s].st = "idle"
  /\ tx' = [tx EXCEPT ![s] = [Idle EXCEPT !.st = "open", !.snap = kv]]
  /\ UNCHANGED <<kv, last, hist>>

\* One Meta call in s's open transaction.  The log keeps the calls that
\* changed the transaction's writes: the others (reads, failed checks) write
\* nothing when replayed on a store with the keys they read unchanged.
Call(s, o) ==
  /\ tx[s].st = "open"
  /\ tx[s].n < MaxOps
  /\ Allowed(tx[s], o)
  /\ LET V == Apply(tx[s], o)
     IN tx' = [tx EXCEPT ![s] = [V EXCEPT !.n = @ + 1,
                  !.log = IF V.w = tx[s].w THEN @ ELSE Append(@, o)]]
  /\ UNCHANGED <<kv, last, hist>>

\* txn.Commit: a transaction with writes aborts with ErrConflict when a key
\* it read was committed after it started; otherwise its writes apply.
Commit(s) ==
  LET V == tx[s]
      W == {k \in Keys : V.w[k] # NoW}
  IN /\ V.st = "open"
     /\ W # {}
     /\ V.r \cap V.stale = {}
     /\ kv' = [k \in Keys |-> IF k \in W THEN V.w[k] ELSE kv[k]]
     /\ last' = V.log
     /\ dupGid' = (dupGid \/ V.ids \cap gids # {})
     /\ gids' = gids \cup V.ids
     /\ dupAuto' = (dupAuto \/ V.aids \cap autos # {})
     /\ autos' = autos \cup V.aids
     /\ created' = created \cup V.newColls
     /\ tx' = [t \in Sessions |->
                IF t = s THEN Idle
                ELSE IF tx[t].st = "open" THEN [tx[t] EXCEPT !.stale = @ \cup W]
                ELSE tx[t]]

\* txn.Commit fails with ErrConflict: nothing is written.
CommitConflict(s) ==
  /\ tx[s].st = "open"
  /\ \E k \in Keys : tx[s].w[k] # NoW
  /\ tx[s].r \cap tx[s].stale # {}
  /\ tx' = [tx EXCEPT ![s] = Idle]
  /\ UNCHANGED <<kv, last, hist>>

\* The caller discards the transaction (a Meta call returned an error, or
\* the transaction only read): nothing is written.
Discard(s) ==
  /\ tx[s].st = "open"
  /\ tx' = [tx EXCEPT ![s] = Idle]
  /\ UNCHANGED <<kv, last, hist>>

Next ==
  \E s \in Sessions :
    \/ Begin(s) \/ Commit(s) \/ CommitConflict(s) \/ Discard(s)
    \/ \E o \in Calls : Call(s, o)

Spec == Init /\ [][Next]_vars

\* The store after the calls os run alone on st, in a transaction of their
\* own: the writes of the replay over the unchanged keys.
Run(os, st) ==
  LET V == SE!FoldLeft(Apply, [Idle EXCEPT !.snap = st], os)
  IN [k \in Keys |-> IF V.w[k] # NoW THEN V.w[k] ELSE st[k]]

Batches == UNION {[1..m -> {o \in Calls : o[1] \notin ReadOnly}] : m \in 1..MaxOps}

-----------------------------------------------------------------------------
(* Properties.                                                             *)

\* GenGlobalID/GenGlobalIDs never return the same id to two committed
\* transactions: globalIDMutex is released before the commit, so two
\* sessions can read the same counter and only the commit conflict on
\* nextGlobalID keeps the ids unique.
GlobalIDsUnique == ~dupGid

\* GenAutoCollectionID never returns an auto id of a collection twice to
\* committed transactions, across concurrent calls, collection drops, and
\* the drop and re-creation of its database (collection ids are never
\* reused).
AutoIDsUnique == ~dupAuto

\* No collection (nor auto id key) outlives its database: DropDatabase
\* racing CreateCollection or GenAutoCollectionID on the same database
\* never leaves fields of a dropped database behind.
NoOrphanCollections ==
  \A d \in DBs : kv[HField("dbs", d)] = None =>
     \A f \in Fields(d) : kv[HField(d, f)] = None

\* Meta transactions are serializable: every commit changes the store
\* exactly as its Meta calls would running alone on the store it commits
\* to.  This fails if any call's write depends on a key it did not add to
\* the read set (a counter, a check, a hash's count or fields), so that a
\* concurrent commit of that key goes unnoticed.
Atomic == INSTANCE AtomicMeta WITH store <- kv, batch <- last,
            Store0 <- [k \in Keys |-> None]
MetaSerializable == Atomic!Spec
=============================================================================
