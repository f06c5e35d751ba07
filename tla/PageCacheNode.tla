--------------------------- MODULE PageCacheNode ---------------------------
(***************************************************************************)
(* What the paged middleware caches of src/src/client/cache have in common:*)
(* the processes of a compute node that use them, and the file system they *)
(* send messages to.                                                       *)
(*                                                                         *)
(* As in DirectPagedCache, a member of Caches is the cache module of one   *)
(* process, and the modules of a compute node share the cache and the open *)
(* counts (the Shared... classes).  A request is numbered in the order of  *)
(* issue and is gone when it has been answered.                            *)
(*                                                                         *)
(* An access covers some pages of a file in full and regions of others.    *)
(* The regions of a page are separate, so none of them merge, and together *)
(* they are less than the page; each is longer than a byte.                *)
(***************************************************************************)
EXTENDS Naturals, SequencesExt, FiniteSets, Bags

CONSTANTS
  Classes,         \* the classes of cache modules a run builds
  Caches,
  Files,           \* numbers
  Users,           \* file -> the modules whose processes use it
  Accesses,        \* [file, full, part]: pages covered in full, and a
                   \* function from the others to the regions covered
  pageCapacity,
  MaxRequests,     \* bound: requests issued in a behaviour
  MaxOutstanding   \* bound: requests a process has outstanding; 1 for blocking
                   \* calls, more for IREAD and IWRITE

ASSUME PageCacheAssumption ==
  /\ Classes \subseteq {"blockIndexed", "singlePages", "progressive"}
  /\ Files \subseteq Nat /\ Users \in [Files -> SUBSET Caches]
  /\ \A a \in Accesses :
       /\ a.file \in Files
       /\ a.full \subseteq Nat /\ IsFiniteSet(a.full)
       /\ DOMAIN a.part \subseteq Nat \ a.full /\ IsFiniteSet(DOMAIN a.part)
       /\ \A p \in DOMAIN a.part :
            a.part[p] # {} /\ IsFiniteSet(a.part[p]) /\ "page" \notin a.part[p]
  /\ pageCapacity \in Nat \ {0}
  /\ MaxRequests \in Nat /\ MaxOutstanding \in Nat \ {0}

VARIABLES
  class,               \* the modules' class
  lruCache,            \* the page cache, shared
  openFileCounts,      \* file -> number of opens, shared
  fs,                  \* bag of the messages at the file system
  live,                \* request -> what it asks, until it is answered
  issued,              \* number of requests issued
  isOpen,              \* module -> files its process has open
  failed               \* "no", "deleted", or the assertion that stopped the program

nodeVars == <<class, lruCache, openFileCounts, fs, live, issued, isOpen, failed>>

BagAdd(bag, m) == bag (+) SetToBag({m})

BagRemove(bag, m) == bag (-) SetToBag({m})

Without(g, S) == [x \in DOMAIN g \ S |-> g[x]]

With(g, x, y) == [z \in DOMAIN g \union {x} |-> IF z = x THEN y ELSE g[z]]

KeysOf(f, P) == {[filename |-> f, key |-> p] : p \in P}

FullKeys(a) == KeysOf(a.file, a.full)

PartialKeys(a) == KeysOf(a.file, DOMAIN a.part)

AllKeys(a) == FullKeys(a) \union PartialKeys(a)

\* The pages of a file in the order of operator<.
InOrder(S) ==
  CHOOSE s \in [1..Cardinality(S) -> S] : \A i, j \in DOMAIN s : i < j => s[i].key < s[j].key

ToFs(c, kind, keys, regions, parent) ==
  [cache |-> c, kind |-> kind, keys |-> keys, regions |-> regions, parent |-> parent]

\* The first module of a node creates the cache, here empty, and the open
\* counts; the others find them.
SharedResources(emptyCache) ==
  /\ lruCache = emptyCache
  /\ openFileCounts = [f \in Files |-> 0]

NodeInit ==
  /\ class \in Classes
  /\ fs = EmptyBag /\ live = << >> /\ issued = 0
  /\ isOpen = [c \in Caches |-> {}]
  /\ failed = "no"
-----------------------------------------------------------------------------
(* Requests of the application.                                            *)

Outstanding(c) == {r \in DOMAIN live : live[r].cache = c}

Id == issued + 1

Asked(c, kind, a) == With(live, Id, [cache |-> c, kind |-> kind, access |-> a])

Issue(c) ==
  /\ failed = "no"
  /\ issued < MaxRequests
  /\ Cardinality(Outstanding(c)) < MaxOutstanding
  /\ issued' = Id
  /\ UNCHANGED class

OnFile(f) == [file |-> f, full |-> {}, part |-> << >>]

CanOpen(c, f) ==
  /\ c \in Users[f] /\ f \notin isOpen[c]
  /\ \A r \in Outstanding(c) : live[r].access.file # f \/ live[r].kind # "open"

\* Every rank but the first of a collective open.
CanFakeOpen(c, f) ==
  /\ failed = "no" /\ issued < MaxRequests
  /\ c \in Users[f] /\ f \notin isOpen[c] /\ Outstanding(c) = {}

CanClose(c, f) == f \in isOpen[c] /\ \A r \in Outstanding(c) : live[r].access.file # f

AccessesOf(f) == {a \in Accesses : a.file = f}

\* The answers to opens, forwarded closes and bypass writes are passed on.
PassedOn(m) ==
  /\ m.kind \in {"open", "close", "bypass"} /\ m.parent \in DOMAIN live
  /\ live' = Without(live, {m.parent})
  /\ isOpen' = IF m.kind = "open" THEN [isOpen EXCEPT ![m.cache] = @ \union {live[m.parent].access.file}]
               ELSE isOpen
  /\ fs' = BagRemove(fs, m)

IsAnswerTo(m, kind, asked) ==
  m.kind = kind /\ m.parent \in DOMAIN live /\ live[m.parent].kind = asked
=============================================================================
