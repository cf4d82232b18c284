---------------------------- MODULE CodeBrowser ----------------------------
(***************************************************************************)
(* The code browser of published projects (code_browse.go) over the object *)
(* store: packages are uploaded once (object_storage.go), fetched, parsed, *)
(* and kept for a while in a cache that all requests share.  get and put   *)
(* run under the cache's lock; between them a request fetches and parses   *)
(* on its own.                                                             *)
(*                                                                         *)
(* Left out: the project's status, which is asked for first and is that of *)
(* ProjectLifecycle; downloads of whole packages, which the object store   *)
(* serves by itself.                                                       *)
(***************************************************************************)
EXTENDS CodeArchive

CONSTANTS
  Keys,        \* object keys, each drawn once (newRequestID)
  Packages,    \* for each key what may be uploaded: archive and packed bytes
  Readers,     \* requests
  MaxPacked,   \* maxBrowsableArchiveBytes
  MaxCached,   \* codeArchiveCacheMaxBytes
  TTL,         \* codeArchiveCacheTTL
  MaxClock     \* bound of the model

ASSUME CacheAssumption == MaxPacked \in Nat /\ MaxCached \in Nat /\ MaxPacked <= MaxCached /\ TTL \in Nat
ASSUME PackagesAssumption == \A k \in Keys : \A p \in Packages[k] : p.archive \in Archive /\ p.bytes \in Nat

VARIABLES
  objects,     \* what has been uploaded
  cache,       \* byKey: when each archive was parsed, and its packed bytes
  totalBytes,
  reader,      \* what each request is about to do
  clock

browserVars == <<objects, cache, totalBytes, reader, clock>>

Idle == [at |-> "idle"]

BrowserInit ==
  /\ objects = <<>> /\ cache = <<>> /\ totalBytes = 0
  /\ reader = [r \in Readers |-> Idle]
  /\ clock = 0

(* The map f with x at k *)
With(f, k, x) == [j \in DOMAIN f \cup {k} |-> IF j = k THEN x ELSE f[j]]

(* A signed PUT: the key is new, and ForbidOverwrite refuses a second one. *)
Upload(k) ==
  /\ k \notin DOMAIN objects
  /\ \E p \in Packages[k] : objects' = With(objects, k, p)
  /\ UNCHANGED <<cache, totalBytes, reader, clock>>

Goes(r, x) == reader' = [reader EXCEPT ![r] = x]
Ends(r) == Goes(r, Idle)

Without(K) == Restrict(cache, DOMAIN cache \ K)
Bytes(K) == Sum(K, LAMBDA k : cache[k].bytes)

(* A request for the tree or a file of the project whose package is k.    *)
(* get: a hit is served; what has been kept too long is dropped.           *)
Get(r, k) ==
  /\ reader[r] = Idle
  /\ \/ /\ k \in DOMAIN cache /\ clock - cache[k].at <= TTL
        /\ UNCHANGED <<cache, totalBytes, reader>>
     \/ /\ k \in DOMAIN cache /\ clock - cache[k].at > TTL
        /\ cache' = Without({k}) /\ totalBytes' = totalBytes - cache[k].bytes
        /\ Goes(r, [at |-> "fetch", key |-> k])
     \/ /\ k \notin DOMAIN cache
        /\ Goes(r, [at |-> "fetch", key |-> k])
        /\ UNCHANGED <<cache, totalBytes>>
  /\ UNCHANGED <<objects, clock>>

(* GetObject and parseCodeArchive.  The store may fail to answer.          *)
Fetch(r) ==
  LET k == reader[r].key IN
  /\ reader[r].at = "fetch"
  /\ \/ Ends(r)
     \/ /\ k \in DOMAIN objects /\ objects[k].bytes <= MaxPacked
        /\ Supported(objects[k].archive) /\ WellFormed(objects[k].archive)
        /\ Goes(r, [at |-> "put", key |-> k, parsed |-> clock])
  /\ UNCHANGED <<objects, cache, totalBytes, clock>>

(* The entries put drops for a package of so many bytes: the oldest ones,  *)
(* one after the other, as long as it does not fit.                        *)
Evicts(K, before, bytes) ==
  /\ \A k \in K, kept \in DOMAIN cache \ K : cache[k].at <= cache[kept].at
  /\ before - Bytes(K) + bytes <= MaxCached \/ K = DOMAIN cache
  /\ \A last \in K : (\A k \in K : cache[k].at <= cache[last].at) =>
        before - Bytes(K \ {last}) + bytes > MaxCached

(* Faulty: the bytes of an entry that is replaced are not taken off.       *)
PutTwice(r) ==
  LET k == reader[r].key  bytes == objects[k].bytes IN
  /\ reader[r].at = "put"
  /\ \E K \in SUBSET DOMAIN cache :
       /\ Evicts(K, totalBytes, bytes)
       /\ cache' = With(Without(K), k, [at |-> reader[r].parsed, bytes |-> bytes])
       /\ totalBytes' = totalBytes - Bytes(K) + bytes
  /\ Ends(r)
  /\ UNCHANGED <<objects, clock>>

(* put: another request may have put the same package meanwhile.           *)
Put(r) ==
  LET k == reader[r].key
      bytes == objects[k].bytes
      before == totalBytes - IF k \in DOMAIN cache THEN cache[k].bytes ELSE 0 IN
  /\ reader[r].at = "put"
  /\ \E K \in SUBSET DOMAIN cache :
       /\ Evicts(K, before, bytes)
       /\ cache' = With(Without(K), k, [at |-> reader[r].parsed, bytes |-> bytes])
       /\ totalBytes' = before - Bytes(K) + bytes
  /\ Ends(r)
  /\ UNCHANGED <<objects, clock>>

Tick ==
  /\ clock < MaxClock /\ clock' = clock + 1
  /\ UNCHANGED <<objects, cache, totalBytes, reader>>

BrowserNext ==
  \/ \E k \in Keys : Upload(k) \/ \E r \in Readers : Get(r, k)
  \/ \E r \in Readers : Fetch(r) \/ Put(r)
  \/ Tick

BrowserSpec == BrowserInit /\ [][BrowserNext]_browserVars

-----------------------------------------------------------------------------
(* put: totalBytes is what the cache holds, never over its limit, although *)
(* requests that miss at the same time put the same package twice, and     *)
(* entries expire and are evicted in between.                              *)
CacheAccounts == totalBytes = Bytes(DOMAIN cache) /\ totalBytes <= MaxCached

(* The archives that requests have parsed and not yet answered from. *)
Parsed == {objects[reader[r].key].archive : r \in {q \in Readers : reader[q].at = "put"}}

(* What opening a listed file yields is the first entry listed of the path *)
(* asked for, cleaned once more, all of it or as much as is shown; and the *)
(* file itself opens if its path, as listed, neither begins nor ends in a  *)
(* blank and its entry can be read.  So the limits, the skipped entries and*)
(* the cleaned paths of the list and of extractWith agree, also for two    *)
(* entries of one name, and where the stream ends.  A path with a blank at *)
(* an end may be refused, not found, or lead to another listed file; an    *)
(* entry of a zip that is listed from the directory alone may be malformed.*)
ListedFilesOpen ==
  \A a \in Parsed :
    LET listed == Listed(a) IN
    \A i \in listed :
      LET asked == Path(a, i)
          named == {j \in listed : Path(a, j) = Safe(asked)}
          first == a.entries[Min(named)]
          file == ReadFile(a, asked)
          whole == Download(a, asked) IN
      /\ Bare(asked) => i \in named
      /\ named # {} /\ Sound(first) => file.status = "ok" /\ whole.status \in {"ok", "too large"}
      /\ file.status = "ok" => named # {} /\ file.size = first.size /\ file.truncated = (file.content < file.size)
      /\ whole.status = "ok" => named # {} /\ whole.content = first.size
      /\ whole.status = "too large" => named # {} /\ first.size > MaxDownload

(* The tree can be shown by a single pass: every directory comes before    *)
(* what is in it, once, its entries next to each other; and the README is  *)
(* one of the listed files least deep (buildCodeTree, pickReadme).         *)
TreeShows ==
  \A a \in Parsed :
    LET nodes == Nodes(a)
        readmes == {i \in Listed(a) : Last(Path(a, i)) \in Readmes}
        readme == PickReadme(a) IN
    /\ \A x \in nodes : Front(x.path) # <<>> =>
         Cardinality({d \in nodes : d.dir /\ d.path = Front(x.path) /\ Before(d, x)}) = 1
    /\ \A x, z \in nodes : Front(x.path) = Front(z.path) =>
         \A y \in nodes : Before(x, y) /\ Before(y, z) => Front(y.path) = Front(x.path)
    /\ readmes # {} => readme \in readmes /\ \A i \in readmes : Len(Path(a, readme)) <= Len(Path(a, i))
=============================================================================
