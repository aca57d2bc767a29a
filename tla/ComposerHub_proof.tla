------------------------- MODULE ComposerHub_proof -------------------------
(***************************************************************************)
(* TypeOK, MirrorResolved and RightArchive for any number of clients,      *)
(* packages, URLs, versions of the metadata, restarts and cut bodies.  The *)
(* parts of the invariant are operators of values and not of variables, so *)
(* that what they say of a client that does not move follows from how they *)
(* grow with the version and the registry.                                 *)
(***************************************************************************)
EXTENDS ComposerHub, TLAPS

(* A body under a locator comes from a version up to n: metadata is one of *)
(* them, an archive is listed by one, for this reference or path.          *)
Lists(n, l, url) ==
  \E v \in 1..n : \E ref \in DOMAIN Listed[v] :
    /\ Listed[v][ref] = url
    /\ l.kind = "dists" => l.ref = ref
    /\ l.kind = "dist" => l.path = url[1]

Genuine(n, l, body) == IF l = Metadata THEN \E v \in 1..n : body = Page(v)
                                       ELSE Lists(n, l, body)

(* Metadata that was rewritten in epoch r, the present one, has taught the *)
(* registry k all its references.                                          *)
Learned(k, r, held) == held.since = r => \A ref \in ListedBy(held.body) : k[ref] # Nil

EntryOK(n, k, r, l, held) ==
  /\ held.body = Empty \/ Genuine(n, l, held.body)
  /\ held.since <= r
  /\ l = Metadata => Learned(k, r, held)

FetchedOK(n, r, l, held) == Genuine(n, l, held.body) /\ held.since <= r

KnownOK(n, k) ==
  \A ref \in Refs : k[ref] # Nil =>
    \E v \in 1..n : ref \in DOMAIN Listed[v] /\ Listed[v][ref] = k[ref]

(* A job asks for something the metadata of its client lists.              *)
Pending(n, j, cp) ==
  /\ j.kind = "dists" => cp # Nil /\ j.ref \in ListedBy(cp.body)
  /\ j.kind = "dist" => \E v \in 1..n : \E ref \in DOMAIN Listed[v] :
                          Listed[v][ref] = j.url

ClientOK(n, k, r, p, j, g, cp) ==
  /\ p # "idle" => j \in Jobs /\ Pending(n, j, cp)
  /\ p = "head" => j = Metadata
  /\ p \in {"head", "store"} => g \in Held /\ EntryOK(n, k, r, Locator(j), g)
  /\ p = "rewrite" => g \in Held /\ FetchedOK(n, r, Locator(j), g)
  /\ cp # Nil => EntryOK(n, k, r, Metadata, cp)

AnswerOK(n, a) ==
  a # Nil =>
    /\ a.body = NotFound => a.forgot
    /\ (a.job # Metadata /\ a.body \notin {Empty, NotFound, Failed}) =>
         Lists(n, Locator(a.job), a.body)

DiskOK(n, k, r, d) == \A l \in Locators : d[l] # Nil => EntryOK(n, k, r, l, d[l])

Inv == /\ TypeOK
       /\ KnownOK(version, known)
       /\ DiskOK(version, known, restarts, disk)
       /\ \A c \in Clients :
            /\ ClientOK(version, known, restarts, pc[c], job[c], got[c], copy[c])
            /\ AnswerOK(version, answer[c])

Untouched(q) == /\ pc'[q] = pc[q] /\ job'[q] = job[q] /\ got'[q] = got[q]
                /\ copy'[q] = copy[q] /\ answer'[q] = answer[q]

-----------------------------------------------------------------------------
(* Jobs and bodies.                                                        *)

LEMMA JobKinds ==
  ASSUME NEW j \in Jobs
  PROVE  /\ Locator(j) \in Locators
         /\ Locator(j) = Metadata <=> j = Metadata
         /\ j.kind = "dists" => j.ref \in Refs /\ Locator(j) = j
         /\ j.kind = "dist" => /\ j.url \in URLs
                              /\ Locator(j).kind = "dist"
                              /\ Locator(j).path = j.url[1]
         /\ j # Metadata => j.kind \in {"dists", "dist"}
BY DEF Jobs, Metadata, Mirror, Legacy, Locator, Locators

LEMMA PageVersion == \A v : Page(v)[2] = v
BY DEF Page

LEMMA ListedRefs ==
  ASSUME NEW body \in Bodies
  PROVE  ListedBy(body) \subseteq Refs
<1>1. CASE body \in Pages
  <2>1. PICK v \in Versions : body = Page(v)
    BY <1>1 DEF Pages
  <2>2. DOMAIN Listed[v] \subseteq Refs
    BY ListedType
  <2> QED  BY <1>1, <2>1, <2>2, PageVersion DEF ListedBy
<1>2. CASE body \notin Pages
  BY <1>2 DEF ListedBy
<1> QED  BY <1>1, <1>2

LEMMA ListedURL ==
  ASSUME NEW v \in Versions, NEW ref \in DOMAIN Listed[v]
  PROVE  ref \in Refs /\ Listed[v][ref] \in URLs
<1>1. PICK S \in SUBSET Refs : Listed[v] \in [S -> URLs]
  BY ListedType
<1> QED  BY <1>1

-----------------------------------------------------------------------------
(* What holds keeps holding when versions are published and the registry   *)
(* learns.                                                                 *)

Grows(k, k2) == \A ref \in Refs : k[ref] # Nil => k2[ref] # Nil

LEMMA ListsLater ==
  ASSUME NEW n \in Nat, NEW m \in Nat, n <= m, NEW l, NEW url, Lists(n, l, url)
  PROVE  Lists(m, l, url)
<1> 1..n \subseteq 1..m
  OBVIOUS
<1> QED  BY DEF Lists

LEMMA GenuineLater ==
  ASSUME NEW n \in Nat, NEW m \in Nat, n <= m, NEW l, NEW body, Genuine(n, l, body)
  PROVE  Genuine(m, l, body)
<1> 1..n \subseteq 1..m
  OBVIOUS
<1> QED  BY ListsLater DEF Genuine

LEMMA EntryLater ==
  ASSUME NEW n \in Nat, NEW m \in Nat, n <= m,
         NEW k, NEW k2, Grows(k, k2), NEW r, NEW l,
         NEW held \in Held, EntryOK(n, k, r, l, held)
  PROVE  EntryOK(m, k2, r, l, held)
<1> ListedBy(held.body) \subseteq Refs
  BY ListedRefs DEF Held
<1> QED  BY GenuineLater DEF EntryOK, Learned, Grows

LEMMA ClientLater ==
  ASSUME NEW n \in Nat, NEW m \in Nat, n <= m,
         NEW k, NEW k2, Grows(k, k2), NEW r, NEW p, NEW j, NEW g,
         NEW cp \in Held \cup {Nil}, ClientOK(n, k, r, p, j, g, cp)
  PROVE  ClientOK(m, k2, r, p, j, g, cp)
<1> 1..n \subseteq 1..m
  OBVIOUS
<1>1. p # "idle" => Pending(m, j, cp)
  BY DEF ClientOK, Pending
<1>2. p \in {"head", "store"} => EntryOK(m, k2, r, Locator(j), g)
  BY EntryLater DEF ClientOK
<1>3. p = "rewrite" => FetchedOK(m, r, Locator(j), g)
  BY GenuineLater DEF ClientOK, FetchedOK
<1>4. cp # Nil => EntryOK(m, k2, r, Metadata, cp)
  BY EntryLater DEF ClientOK
<1> QED  BY <1>1, <1>2, <1>3, <1>4 DEF ClientOK

LEMMA AnswerLater ==
  ASSUME NEW n \in Nat, NEW m \in Nat, n <= m, NEW a, AnswerOK(n, a)
  PROVE  AnswerOK(m, a)
BY ListsLater DEF AnswerOK

(* A step of one client: what it does to the registry, the cache and       *)
(* itself.                                                                 *)
LEMMA LocalStep ==
  ASSUME Inv, TypeOK', NEW c \in Clients,
         version' = version, restarts' = restarts,
         KnownOK(version, known'), Grows(known, known'),
         DiskOK(version, known', restarts, disk'),
         \A q \in Clients \ {c} : Untouched(q),
         ClientOK(version, known', restarts, pc'[c], job'[c], got'[c], copy'[c]),
         AnswerOK(version, answer'[c])
  PROVE  Inv'
<1> version \in Nat /\ version <= version
  BY DEF Inv, TypeOK, Versions
<1>1. ASSUME NEW q \in Clients \ {c}
      PROVE  /\ ClientOK(version, known', restarts, pc'[q], job'[q], got'[q], copy'[q])
             /\ AnswerOK(version, answer'[q])
  <2>1. Untouched(q)
    BY <1>1
  <2>2. copy[q] \in Held \cup {Nil}
    BY <1>1 DEF Inv, TypeOK
  <2>3. /\ ClientOK(version, known, restarts, pc[q], job[q], got[q], copy[q])
        /\ AnswerOK(version, answer[q])
    BY <1>1 DEF Inv
  <2>4. ClientOK(version, known', restarts, pc[q], job[q], got[q], copy[q])
    BY <2>2, <2>3, ClientLater
  <2> QED  BY <2>1, <2>3, <2>4 DEF Untouched
<1> QED  BY <1>1 DEF Inv

PCs == {"idle", "lookup", "head", "fetch", "rewrite", "store"}

LEMMA AnswerTypes ==
  ASSUME TypeOK, NEW c \in Clients, job[c] \in Jobs,
         NEW held \in Held \cup {Nil}, NEW body \in Bodies \cup {NotFound, Failed},
         Answer(c, held, body)
  PROVE  /\ pc' \in [Clients -> PCs]
         /\ job' \in [Clients -> Jobs \cup {Nil}]
         /\ got' \in [Clients -> Held \cup {Nil}]
         /\ copy' \in [Clients -> Held \cup {Nil}]
         /\ answer' \in [Clients -> Outcomes \cup {Nil}]
         /\ \A q \in Clients \ {c} : Untouched(q)
         /\ pc'[c] = "idle"
         /\ copy'[c] = copy[c] \/ (job[c] = Metadata /\ held # Nil /\ copy'[c] = held)
         /\ answer'[c].job = job[c] /\ answer'[c].body = body
         /\ (copy[c] # Nil /\ copy[c].since < restarts) => answer'[c].forgot
<1> DEFINE a == [job |-> job[c], body |-> body,
                 forgot |-> copy[c] # Nil /\ copy[c].since < restarts]
<1>1. a \in Outcomes
  BY DEF Outcomes
<1>2. answer' = [answer EXCEPT ![c] = a]
  BY DEF Answer, Set
<1>3. answer' \in [Clients -> Outcomes \cup {Nil}] /\ answer'[c] = a
  BY <1>1, <1>2 DEF TypeOK
<1>4. /\ pc' \in [Clients -> PCs]
      /\ job' \in [Clients -> Jobs \cup {Nil}]
      /\ got' \in [Clients -> Held \cup {Nil}]
      /\ pc'[c] = "idle"
  BY DEF Answer, Set, TypeOK, PCs
<1>5. /\ copy' \in [Clients -> Held \cup {Nil}]
      /\ copy'[c] = copy[c] \/ (job[c] = Metadata /\ held # Nil /\ copy'[c] = held)
      /\ \A q \in Clients \ {c} : copy'[q] = copy[q]
  BY DEF Answer, Set, TypeOK
<1>6. \A q \in Clients \ {c} : Untouched(q)
  BY <1>2, <1>5 DEF Answer, Set, TypeOK, Untouched
<1>7. ASSUME copy[c] # Nil, copy[c].since < restarts
      PROVE  answer'[c].forgot
  <2>1. (copy[c] # Nil /\ copy[c].since < restarts) = TRUE
    BY <1>7
  <2>2. a.forgot = TRUE
    BY <2>1
  <2> QED  BY <1>3, <2>2, Zenon
<1> QED  BY <1>3, <1>4, <1>5, <1>6, <1>7

(* A request is answered: with what, so that the invariant holds.          *)
LEMMA Answered ==
  ASSUME Inv, NEW c \in Clients, pc[c] # "idle",
         NEW held \in Held \cup {Nil}, NEW body \in Bodies \cup {NotFound, Failed},
         Answer(c, held, body),
         UNCHANGED <<version, known, restarts, cuts>>,
         disk' \in [Locators -> Held \cup {Nil}],
         DiskOK(version, known, restarts, disk'),
         job[c] = Metadata /\ held # Nil =>
           EntryOK(version, known, restarts, Metadata, held),
         body = NotFound => copy[c] # Nil /\ copy[c].since < restarts,
         job[c] # Metadata /\ body \notin {Empty, NotFound, Failed} =>
           Lists(version, Locator(job[c]), body)
  PROVE  Inv'
<1>1. TypeOK /\ job[c] \in Jobs
      /\ ClientOK(version, known, restarts, pc[c], job[c], got[c], copy[c])
  BY DEF Inv, ClientOK
<1>2. /\ pc' \in [Clients -> PCs]
      /\ job' \in [Clients -> Jobs \cup {Nil}]
      /\ got' \in [Clients -> Held \cup {Nil}]
      /\ copy' \in [Clients -> Held \cup {Nil}]
      /\ answer' \in [Clients -> Outcomes \cup {Nil}]
      /\ \A q \in Clients \ {c} : Untouched(q)
      /\ pc'[c] = "idle"
      /\ copy'[c] = copy[c] \/ (job[c] = Metadata /\ held # Nil /\ copy'[c] = held)
      /\ answer'[c].job = job[c] /\ answer'[c].body = body
      /\ (copy[c] # Nil /\ copy[c].since < restarts) => answer'[c].forgot
  BY <1>1, AnswerTypes
<1>3. TypeOK'
  BY <1>1, <1>2 DEF TypeOK, PCs
<1>4. ClientOK(version, known, restarts, pc'[c], job'[c], got'[c], copy'[c])
  BY <1>1, <1>2 DEF ClientOK
<1>5. AnswerOK(version, answer'[c])
  BY <1>2 DEF AnswerOK
<1>6. KnownOK(version, known') /\ Grows(known, known') /\ known' = known
  BY DEF Inv, Grows
<1> QED  BY <1>2, <1>3, <1>4, <1>5, <1>6, LocalStep

-----------------------------------------------------------------------------
(* The actions.                                                            *)

LEMMA InitInv == Init => Inv
<1> SUFFICES ASSUME Init PROVE Inv
  OBVIOUS
<1>1. TypeOK
  BY BoundsType DEF Init, TypeOK, Versions
<1>2. KnownOK(version, known) /\ DiskOK(version, known, restarts, disk)
  BY DEF Init, KnownOK, DiskOK
<1>3. \A c \in Clients :
        /\ ClientOK(version, known, restarts, pc[c], job[c], got[c], copy[c])
        /\ AnswerOK(version, answer[c])
  BY DEF Init, ClientOK, AnswerOK
<1> QED  BY <1>1, <1>2, <1>3 DEF Inv

LEMMA PublishInv ==
  ASSUME Inv, Publish
  PROVE  Inv'
<1> /\ version \in Nat /\ version' \in Nat /\ version <= version'
    /\ TypeOK
  BY DEF Inv, TypeOK, Versions, Publish
<1> /\ known' = known /\ disk' = disk /\ pc' = pc /\ job' = job /\ got' = got
    /\ copy' = copy /\ answer' = answer /\ restarts' = restarts
  BY DEF Publish
<1> Grows(known, known)
  BY DEF Grows
<1>1. TypeOK'
  BY BoundsType DEF TypeOK, Publish, Versions
<1>2. KnownOK(version', known)
  <2>1. 1..version \subseteq 1..version'
    OBVIOUS
  <2> QED  BY <2>1 DEF Inv, KnownOK
<1>3. DiskOK(version', known, restarts, disk)
  BY EntryLater DEF Inv, DiskOK, TypeOK
<1>4. ASSUME NEW c \in Clients
      PROVE  /\ ClientOK(version', known, restarts, pc[c], job[c], got[c], copy[c])
             /\ AnswerOK(version', answer[c])
  <2>1. copy[c] \in Held \cup {Nil}
    BY DEF TypeOK
  <2>2. /\ ClientOK(version, known, restarts, pc[c], job[c], got[c], copy[c])
        /\ AnswerOK(version, answer[c])
    BY DEF Inv
  <2> QED  BY <2>1, <2>2, ClientLater, AnswerLater
<1> QED  BY <1>1, <1>2, <1>3, <1>4 DEF Inv

(* No metadata has been rewritten in the new epoch, so that it does not    *)
(* matter that the registry is empty.                                      *)
LEMMA RestartInv ==
  ASSUME Inv, Restart
  PROVE  Inv'
<1> TypeOK /\ restarts \in Nat /\ restarts' = restarts + 1 /\ version' = version
    /\ disk' = disk /\ copy' = copy /\ answer' = answer
  BY DEF Inv, TypeOK, Restart
<1>1. TypeOK'
  BY BoundsType DEF TypeOK, Restart
<1>2. KnownOK(version, known')
  BY DEF Restart, KnownOK
<1>3. ASSUME NEW l, NEW held \in Held, EntryOK(version, known, restarts, l, held)
      PROVE  EntryOK(version, known', restarts', l, held)
  <2>1. held.since \in Nat /\ held.since <= restarts
    BY <1>3, BoundsType DEF EntryOK, Held
  <2>2. held.since <= restarts' /\ held.since # restarts'
    BY <2>1
  <2> QED  BY <1>3, <2>2 DEF EntryOK, Learned
<1>4. DiskOK(version, known', restarts', disk)
  BY <1>3 DEF Inv, DiskOK, TypeOK
<1>5. ASSUME NEW c \in Clients
      PROVE  /\ ClientOK(version, known', restarts', pc'[c], job'[c], got'[c], copy[c])
             /\ AnswerOK(version, answer[c])
  <2>1. pc'[c] = "idle"
    BY DEF Restart
  <2>2. copy[c] # Nil => EntryOK(version, known, restarts, Metadata, copy[c])
    BY DEF Inv, ClientOK
  <2>3. copy[c] # Nil => EntryOK(version, known', restarts', Metadata, copy[c])
    BY <1>3, <2>2 DEF TypeOK
  <2> QED  BY <2>1, <2>3 DEF ClientOK, Inv
<1> QED  BY <1>1, <1>2, <1>4, <1>5 DEF Inv

(* What the metadata of a client lists, the upstream listed.               *)
LEMMA AskInv ==
  ASSUME Inv, NEW c \in Clients, NEW j \in Jobs, Ask(c, j)
  PROVE  Inv'
<1>1. TypeOK /\ ClientOK(version, known, restarts, pc[c], job[c], got[c], copy[c])
  BY DEF Inv
<1>2. TypeOK'
  BY <1>1 DEF TypeOK, Ask, Goto, Set
<1>3. \A q \in Clients \ {c} : Untouched(q)
  BY <1>1 DEF TypeOK, Ask, Goto, Set, Untouched
<1>4. /\ pc'[c] = "lookup" /\ job'[c] = j /\ got'[c] = got[c] /\ copy'[c] = copy[c]
      /\ answer'[c] = Nil
  BY <1>1 DEF TypeOK, Ask, Goto, Set
<1>5. Pending(version, j, copy[c])
  <2>1. CASE j.kind = "dists"
    BY <2>1 DEF Ask, Pending
  <2>2. CASE j.kind = "dist"
    <3>1. PICK ref \in ListedBy(copy[c].body) : Listed[copy[c].body[2]][ref] = j.url
      BY <2>2 DEF Ask
    <3>2. copy[c] # Nil
      BY <2>2 DEF Ask
    <3>3. copy[c].body # Empty
      BY <3>1, NilFresh DEF ListedBy
    <3>4. PICK v \in 1..version : copy[c].body = Page(v)
      BY <1>1, <3>2, <3>3 DEF ClientOK, EntryOK, Genuine
    <3>5. ref \in DOMAIN Listed[v] /\ Listed[v][ref] = j.url
      BY <3>1, <3>4, PageVersion DEF ListedBy
    <3> QED  BY <2>2, <3>5 DEF Pending
  <2> QED  BY <2>1, <2>2 DEF Pending
<1>6. ClientOK(version, known, restarts, pc'[c], job'[c], got'[c], copy'[c])
  BY <1>1, <1>4, <1>5 DEF ClientOK
<1>7. AnswerOK(version, answer'[c])
  BY <1>4 DEF AnswerOK
<1>8. /\ UNCHANGED <<version, known, disk, restarts>>
      /\ Grows(known, known')
  BY DEF Ask, Grows
<1> QED  BY <1>2, <1>3, <1>6, <1>7, <1>8, LocalStep DEF Inv

(* What a request finds in the cache is genuine; it is answered with it,   *)
(* or goes on with it.                                                     *)
LEMMA LookupInv ==
  ASSUME Inv, NEW c \in Clients, Lookup(c)
  PROVE  Inv'
<1> DEFINE entry == disk[Locator(job[c])]
<1>1. /\ TypeOK /\ pc[c] = "lookup" /\ job[c] \in Jobs
      /\ ClientOK(version, known, restarts, pc[c], job[c], got[c], copy[c])
  BY DEF Inv, Lookup, ClientOK
<1>2. /\ entry \in Held \cup {Nil}
      /\ entry # Nil => EntryOK(version, known, restarts, Locator(job[c]), entry)
      /\ DiskOK(version, known, restarts, disk)
  BY <1>1, JobKinds DEF Inv, DiskOK, TypeOK
<1>3. UNCHANGED <<version, known, disk, restarts, cuts>>
  BY DEF Lookup
<1>4. CASE entry # Nil /\ ~RequireRevalidate(job[c]) /\ Answer(c, Nil, entry.body)
  <2>1. job[c] # Metadata /\ Locator(job[c]) # Metadata
    BY <1>1, <1>4, JobKinds DEF RequireRevalidate
  <2>2. entry.body \in Bodies
    BY <1>2, <1>4 DEF Held
  <2>3. entry.body # Empty => Lists(version, Locator(job[c]), entry.body)
    BY <1>2, <1>4, <2>1 DEF EntryOK, Genuine
  <2>4. entry.body # NotFound
    BY <2>2, NilFresh
  <2> HIDE DEF entry
  <2> QED  BY <1>1, <1>2, <1>3, <1>4, <2>1, <2>2, <2>3, <2>4, Answered DEF TypeOK
<1>5. CASE \/ /\ entry = Nil
              /\ Goto(c, "lookup", "fetch")
              /\ UNCHANGED <<job, got, copy, answer>>
           \/ /\ entry # Nil /\ RequireRevalidate(job[c])
              /\ Goto(c, "lookup", "head")
              /\ got' = Set(got, c, entry)
              /\ UNCHANGED <<job, copy, answer>>
  <2> HIDE DEF entry
  <2>1. /\ pc'[c] = "fetch" \/ (pc'[c] = "head" /\ job[c] = Metadata /\ entry # Nil
                                /\ got'[c] = entry)
        /\ UNCHANGED <<job, copy, answer>>
    BY <1>1, <1>5 DEF Goto, Set, RequireRevalidate, TypeOK
  <2>2. \A q \in Clients \ {c} : Untouched(q)
    BY <1>1, <1>5 DEF Goto, Set, TypeOK, Untouched
  <2>3. TypeOK'
    BY <1>1, <1>2, <1>3, <1>5 DEF Goto, Set, TypeOK
  <2>4. ClientOK(version, known, restarts, pc'[c], job'[c], got'[c], copy'[c])
    BY <1>1, <1>2, <2>1 DEF ClientOK
  <2>5. AnswerOK(version, answer'[c])
    BY <2>1 DEF Inv
  <2>6. Grows(known, known')
    BY <1>3 DEF Grows
  <2> QED  BY <1>2, <1>3, <2>2, <2>3, <2>4, <2>5, <2>6, LocalStep DEF Inv
<1> QED  BY <1>4, <1>5 DEF Lookup

LEMMA HeadInv ==
  ASSUME Inv, NEW c \in Clients, Head(c)
  PROVE  Inv'
<1>1. /\ TypeOK /\ pc[c] = "head" /\ job[c] \in Jobs
      /\ ClientOK(version, known, restarts, pc[c], job[c], got[c], copy[c])
      /\ DiskOK(version, known, restarts, disk)
  BY DEF Inv, Head, ClientOK
<1>2. /\ job[c] = Metadata /\ got[c] \in Held
      /\ EntryOK(version, known, restarts, Metadata, got[c])
  BY <1>1, JobKinds DEF ClientOK
<1>3. UNCHANGED <<version, known, disk, restarts, cuts>>
  BY DEF Head
<1>4. CASE Answer(c, got[c], got[c].body)
  <2>1. got[c].body \in Bodies /\ got[c].body # NotFound
    BY <1>2, NilFresh DEF Held
  <2> QED  BY <1>1, <1>2, <1>3, <1>4, <2>1, Answered DEF TypeOK
<1>5. CASE /\ Goto(c, "head", "fetch")
           /\ got' = Set(got, c, Nil)
           /\ UNCHANGED <<job, copy, answer>>
  <2>1. pc'[c] = "fetch" /\ UNCHANGED <<job, copy, answer>>
    BY <1>1, <1>5 DEF Goto, TypeOK
  <2>2. \A q \in Clients \ {c} : Untouched(q)
    BY <1>1, <1>5 DEF Goto, Set, TypeOK, Untouched
  <2>3. TypeOK'
    BY <1>1, <1>3, <1>5 DEF Goto, Set, TypeOK
  <2>4. ClientOK(version, known, restarts, pc'[c], job'[c], got'[c], copy'[c])
    BY <1>1, <2>1 DEF ClientOK
  <2>5. AnswerOK(version, answer'[c]) /\ Grows(known, known')
    BY <1>3, <2>1 DEF Inv, Grows
  <2> QED  BY <1>1, <1>3, <2>2, <2>3, <2>4, <2>5, LocalStep DEF Inv
<1> QED  BY <1>4, <1>5 DEF Head

(* A mirror URL that leads nowhere: the metadata of the client is older    *)
(* than the last restart.                                                  *)
LEMMA Forgotten ==
  ASSUME Inv, NEW c \in Clients, pc[c] # "idle", job[c] # Metadata,
         Upstream(job[c]) = Nil
  PROVE  copy[c] # Nil /\ copy[c].since < restarts
<1>1. /\ TypeOK /\ job[c] \in Jobs
      /\ ClientOK(version, known, restarts, pc[c], job[c], got[c], copy[c])
      /\ Pending(version, job[c], copy[c])
  BY DEF Inv, ClientOK
<1>2. job[c].kind # "dist"
  BY <1>1, JobKinds, NilFresh DEF Upstream, Bodies
<1>3. job[c].kind = "dists" /\ known[job[c].ref] = Nil
  BY <1>1, <1>2, JobKinds DEF Upstream
<1>4. copy[c] # Nil /\ job[c].ref \in ListedBy(copy[c].body)
  BY <1>1, <1>3 DEF Pending
<1>5. copy[c] \in Held /\ EntryOK(version, known, restarts, Metadata, copy[c])
  BY <1>1, <1>4 DEF ClientOK, TypeOK
<1>6. copy[c].since # restarts
  BY <1>3, <1>4, <1>5 DEF EntryOK, Learned
<1>7. copy[c].since \in Nat /\ restarts \in Nat /\ copy[c].since <= restarts
  BY <1>1, <1>5, BoundsType DEF EntryOK, Held, TypeOK
<1> QED  BY <1>4, <1>6, <1>7

(* Where an archive leads, the upstream listed it.                         *)
LEMMA UpstreamListed ==
  ASSUME Inv, NEW c \in Clients, pc[c] # "idle", job[c] # Metadata,
         Upstream(job[c]) # Nil
  PROVE  /\ Upstream(job[c]) \in URLs
         /\ Lists(version, Locator(job[c]), Upstream(job[c]))
<1>1. TypeOK /\ job[c] \in Jobs /\ Pending(version, job[c], copy[c])
      /\ KnownOK(version, known)
  BY DEF Inv, ClientOK
<1>2. CASE job[c].kind = "dists"
  <2>1. job[c].ref \in Refs /\ Locator(job[c]) = job[c]
        /\ Upstream(job[c]) = known[job[c].ref]
    BY <1>1, <1>2, JobKinds DEF Upstream
  <2>2. known[job[c].ref] \in URLs
    BY <1>1, <2>1 DEF TypeOK
  <2>3. PICK v \in 1..version : job[c].ref \in DOMAIN Listed[v]
                               /\ Listed[v][job[c].ref] = known[job[c].ref]
    BY <1>1, <2>1 DEF KnownOK
  <2> QED  BY <1>2, <2>1, <2>2, <2>3 DEF Lists
<1>3. CASE job[c].kind = "dist"
  <2>1. /\ job[c].url \in URLs /\ Upstream(job[c]) = job[c].url
        /\ Locator(job[c]).kind = "dist" /\ Locator(job[c]).path = job[c].url[1]
    BY <1>1, <1>3, JobKinds DEF Upstream
  <2>2. PICK v \in 1..version : \E ref \in DOMAIN Listed[v] : Listed[v][ref] = job[c].url
    BY <1>1, <1>3 DEF Pending
  <2> QED  BY <2>1, <2>2 DEF Lists
<1> QED  BY <1>1, <1>2, <1>3, JobKinds

LEMMA FetchInv ==
  ASSUME Inv, NEW c \in Clients, Fetch(c)
  PROVE  Inv'
<1>1. /\ TypeOK /\ pc[c] = "fetch" /\ job[c] \in Jobs
      /\ ClientOK(version, known, restarts, pc[c], job[c], got[c], copy[c])
      /\ DiskOK(version, known, restarts, disk)
  BY DEF Inv, Fetch, ClientOK
<1>2. UNCHANGED <<version, known, disk, restarts, cuts>>
  BY DEF Fetch
<1>3. ASSUME NEW body \in Bodies, Genuine(version, Locator(job[c]), body),
             Goto(c, "fetch", "rewrite"), got' = Set(got, c, Fetched(body)),
             UNCHANGED <<job, copy, answer>>
      PROVE  Inv'
  <2>1. Fetched(body) \in Held /\ Fetched(body).body = body
        /\ Fetched(body).since = restarts
    BY <1>1 DEF Fetched, Held, TypeOK
  <2>2. /\ pc'[c] = "rewrite" /\ job'[c] = job[c] /\ copy'[c] = copy[c]
        /\ got'[c] = Fetched(body) /\ answer'[c] = answer[c]
    BY <1>1, <1>3 DEF Goto, Set, TypeOK
  <2>3. \A q \in Clients \ {c} : Untouched(q)
    BY <1>1, <1>3 DEF Goto, Set, TypeOK, Untouched
  <2>4. TypeOK'
    BY <1>1, <1>2, <1>3, <2>1 DEF Goto, Set, TypeOK
  <2>5. FetchedOK(version, restarts, Locator(job[c]), Fetched(body))
    BY <1>1, <1>3, <2>1, BoundsType DEF FetchedOK, TypeOK
  <2>6. ClientOK(version, known, restarts, pc'[c], job'[c], got'[c], copy'[c])
    BY <1>1, <2>1, <2>2, <2>5 DEF ClientOK
  <2>7. AnswerOK(version, answer'[c]) /\ Grows(known, known')
    BY <1>2, <2>2 DEF Inv, Grows
  <2> QED  BY <1>1, <1>2, <2>3, <2>4, <2>6, <2>7, LocalStep DEF Inv
<1>4. CASE /\ job[c] = Metadata
           /\ Goto(c, "fetch", "rewrite")
           /\ got' = Set(got, c, Fetched(Page(version)))
           /\ UNCHANGED <<job, copy, answer>>
  <2>1. Page(version) \in Bodies /\ version \in 1..version
    BY <1>1 DEF Bodies, Pages, TypeOK, Versions
  <2>2. Genuine(version, Locator(job[c]), Page(version))
    BY <1>1, <1>4, <2>1, JobKinds DEF Genuine
  <2> QED  BY <1>3, <1>4, <2>1, <2>2
<1>5. CASE /\ job[c] # Metadata
           /\ Upstream(job[c]) # Nil
           /\ Goto(c, "fetch", "rewrite")
           /\ got' = Set(got, c, Fetched(Upstream(job[c])))
           /\ UNCHANGED <<job, copy, answer>>
  <2>1. /\ Upstream(job[c]) \in URLs
        /\ Lists(version, Locator(job[c]), Upstream(job[c]))
    BY <1>1, <1>5, UpstreamListed
  <2>2. Genuine(version, Locator(job[c]), Upstream(job[c]))
    BY <1>1, <1>5, <2>1, JobKinds DEF Genuine
  <2> QED  BY <1>3, <1>5, <2>1, <2>2 DEF Bodies
<1>6. CASE job[c] # Metadata /\ Upstream(job[c]) = Nil /\ Answer(c, Nil, NotFound)
  <2>1. copy[c] # Nil /\ copy[c].since < restarts
    BY <1>1, <1>6, Forgotten
  <2> QED  BY <1>1, <1>2, <1>6, <2>1, Answered DEF TypeOK
<1>7. CASE Answer(c, Nil, Failed)
  BY <1>1, <1>2, <1>7, Answered, NilFresh DEF TypeOK
<1> QED  BY <1>4, <1>5, <1>6, <1>7 DEF Fetch

(* Rewriting metadata teaches the registry all of its references, with the *)
(* URLs of this version, and makes it forget none.                         *)
LEMMA RewriteInv ==
  ASSUME Inv, NEW c \in Clients, Rewrite(c)
  PROVE  Inv'
<1>1. /\ TypeOK /\ pc[c] = "rewrite" /\ job[c] \in Jobs /\ got[c] \in Held
      /\ ClientOK(version, known, restarts, pc[c], job[c], got[c], copy[c])
      /\ FetchedOK(version, restarts, Locator(job[c]), got[c])
      /\ version \in Nat
  BY DEF Inv, Rewrite, Goto, ClientOK, TypeOK, Versions
<1>2. /\ UNCHANGED <<version, disk, job, got, copy, answer, restarts, cuts>>
      /\ pc'[c] = "store"
  BY <1>1 DEF Rewrite, Goto, TypeOK
<1>3. /\ known' \in [Refs -> URLs \cup {Nil}]
      /\ Grows(known, known')
      /\ KnownOK(version, known')
      /\ job[c] = Metadata => \A ref \in ListedBy(got[c].body) : known'[ref] # Nil
  <2>1. CASE job[c] = Metadata
    <3>1. PICK v \in 1..version : got[c].body = Page(v)
      BY <1>1, <2>1, JobKinds DEF FetchedOK, Genuine
    <3>2. v \in Versions /\ known' = Remember(v)
      <4>1. v \in Versions
        BY <1>1, BoundsType DEF TypeOK, Versions
      <4>2. got[c].body[2] = v
        BY <3>1, PageVersion
      <4> QED  BY <2>1, <4>1, <4>2 DEF Rewrite
    <3>3. \A ref \in DOMAIN Listed[v] : ref \in Refs /\ Listed[v][ref] \in URLs
                                       /\ Listed[v][ref] # Nil
      BY <3>2, ListedURL, NilFresh DEF Bodies
    <3>4. known' \in [Refs -> URLs \cup {Nil}]
      BY <1>1, <3>2, <3>3 DEF Remember, TypeOK
    <3>5. Grows(known, known')
      BY <3>2, <3>3 DEF Remember, Grows
    <3>6. KnownOK(version, known')
      <4> SUFFICES ASSUME NEW ref \in Refs, known'[ref] # Nil
                   PROVE  \E u \in 1..version :
                            ref \in DOMAIN Listed[u] /\ Listed[u][ref] = known'[ref]
        BY DEF KnownOK
      <4>1. CASE ref \in DOMAIN Listed[v]
        BY <3>2, <4>1 DEF Remember
      <4>2. CASE ref \notin DOMAIN Listed[v]
        BY <3>2, <4>2 DEF Remember, Inv, KnownOK
      <4> QED  BY <4>1, <4>2
    <3>7. \A ref \in ListedBy(got[c].body) : known'[ref] # Nil
      <4>1. ListedBy(got[c].body) \subseteq DOMAIN Listed[v]
        BY <3>1, PageVersion DEF ListedBy
      <4> QED  BY <3>2, <3>3, <4>1 DEF Remember
    <3> QED  BY <3>4, <3>5, <3>6, <3>7
  <2>2. CASE job[c] # Metadata
    BY <1>1, <2>2 DEF Rewrite, Inv, TypeOK, Grows
  <2> QED  BY <2>1, <2>2
<1>4. \A q \in Clients \ {c} : Untouched(q)
  BY <1>1, <1>2 DEF Rewrite, Goto, TypeOK, Untouched
<1>5. TypeOK'
  BY <1>1, <1>2, <1>3 DEF Rewrite, Goto, TypeOK
<1>6. DiskOK(version, known', restarts, disk)
  BY <1>1, <1>3, EntryLater DEF Inv, DiskOK, TypeOK
<1>7. EntryOK(version, known', restarts, Locator(job[c]), got[c])
  BY <1>1, <1>3, JobKinds DEF FetchedOK, EntryOK, Learned
<1>8. ClientOK(version, known', restarts, pc'[c], job'[c], got'[c], copy'[c])
  <2>1. copy[c] \in Held \cup {Nil}
    BY <1>1 DEF TypeOK
  <2>2. ClientOK(version, known', restarts, pc[c], job[c], got[c], copy[c])
    BY <1>1, <1>3, <2>1, ClientLater
  <2> QED  BY <1>1, <1>2, <1>7, <2>2 DEF ClientOK
<1>9. AnswerOK(version, answer'[c])
  BY <1>2 DEF Inv
<1> QED  BY <1>2, <1>3, <1>4, <1>5, <1>6, <1>8, <1>9, LocalStep

(* A cut body lists nothing.                                               *)
LEMMA CutInv ==
  ASSUME Inv, NEW c \in Clients, Cut(c)
  PROVE  Inv'
<1> DEFINE cut == [got[c] EXCEPT !.body = Empty]
<1>1. /\ TypeOK /\ pc[c] = "rewrite" /\ job[c] \in Jobs /\ got[c] \in Held
      /\ ClientOK(version, known, restarts, pc[c], job[c], got[c], copy[c])
      /\ FetchedOK(version, restarts, Locator(job[c]), got[c])
      /\ DiskOK(version, known, restarts, disk)
  BY DEF Inv, Cut, Goto, ClientOK
<1>2. /\ UNCHANGED <<version, known, disk, job, copy, answer, restarts>>
      /\ pc'[c] = "store" /\ got'[c] = cut
  BY <1>1 DEF Cut, Goto, TypeOK
<1>3. cut \in Held /\ cut.body = Empty /\ cut.since = got[c].since
  BY <1>1 DEF Held, Bodies
<1>4. \A q \in Clients \ {c} : Untouched(q)
  BY <1>1, <1>2 DEF Cut, Goto, TypeOK, Untouched
<1>5. TypeOK'
  <2>1. got' \in [Clients -> Held \cup {Nil}]
    BY <1>1, <1>3 DEF Cut, TypeOK
  <2>2. cuts' \in 0..MaxCuts
    BY <1>1, BoundsType DEF Cut, TypeOK
  <2>3. pc' \in [Clients -> PCs]
    BY <1>1 DEF Cut, Goto, TypeOK, PCs
  <2> QED  BY <1>1, <1>2, <2>1, <2>2, <2>3 DEF TypeOK, PCs
<1>6. EntryOK(version, known, restarts, Locator(job[c]), cut)
  BY <1>1, <1>3, NilFresh DEF FetchedOK, EntryOK, Learned, ListedBy
<1>7. ClientOK(version, known, restarts, pc'[c], job'[c], got'[c], copy'[c])
  <2> HIDE DEF cut
  <2> QED  BY <1>1, <1>2, <1>3, <1>6 DEF ClientOK
<1>8. AnswerOK(version, answer'[c]) /\ Grows(known, known')
  BY <1>2 DEF Inv, Grows
<1> QED  BY <1>1, <1>2, <1>4, <1>5, <1>7, <1>8, LocalStep DEF Inv

LEMMA StoreInv ==
  ASSUME Inv, NEW c \in Clients, Store(c)
  PROVE  Inv'
<1>1. /\ TypeOK /\ pc[c] = "store" /\ job[c] \in Jobs /\ got[c] \in Held
      /\ EntryOK(version, known, restarts, Locator(job[c]), got[c])
      /\ DiskOK(version, known, restarts, disk)
      /\ Locator(job[c]) \in Locators
  BY JobKinds DEF Inv, Store, ClientOK
<1>2. UNCHANGED <<version, known, restarts, cuts>>
  BY DEF Store
<1>3. CASE /\ disk' = [disk EXCEPT ![Locator(job[c])] = got[c]]
           /\ Answer(c, got[c], got[c].body)
  <2>1. disk' \in [Locators -> Held \cup {Nil}]
    BY <1>1, <1>3 DEF TypeOK
  <2>2. DiskOK(version, known, restarts, disk')
    BY <1>1, <1>3 DEF DiskOK, TypeOK
  <2>3. got[c].body \in Bodies /\ got[c].body # NotFound
    BY <1>1, NilFresh DEF Held
  <2>4. job[c] = Metadata => EntryOK(version, known, restarts, Metadata, got[c])
    BY <1>1, JobKinds
  <2>5. (job[c] # Metadata /\ got[c].body # Empty) =>
          Lists(version, Locator(job[c]), got[c].body)
    BY <1>1, JobKinds DEF EntryOK, Genuine
  <2> QED  BY <1>1, <1>2, <1>3, <2>1, <2>2, <2>3, <2>4, <2>5, Answered
<1>4. CASE Answer(c, Nil, Failed) /\ UNCHANGED disk
  BY <1>1, <1>2, <1>4, Answered, NilFresh DEF TypeOK
<1> QED  BY <1>3, <1>4 DEF Store

LEMMA StutterInv ==
  ASSUME Inv, UNCHANGED vars
  PROVE  Inv'
BY DEF Inv, TypeOK, KnownOK, DiskOK, vars

-----------------------------------------------------------------------------
LEMMA NextInv ==
  ASSUME Inv, [Next]_vars
  PROVE  Inv'
<1>1. CASE Publish
  BY <1>1, PublishInv
<1>2. CASE Restart
  BY <1>2, RestartInv
<1>3. ASSUME NEW c \in Clients, NEW j \in Jobs, Ask(c, j)
      PROVE  Inv'
  BY <1>3, AskInv
<1>4. ASSUME NEW c \in Clients, Handle(c)
      PROVE  Inv'
  BY <1>4, LookupInv, HeadInv, FetchInv, RewriteInv, CutInv, StoreInv DEF Handle
<1>5. CASE UNCHANGED vars
  BY <1>5, StutterInv
<1> QED  BY <1>1, <1>2, <1>3, <1>4, <1>5 DEF Next

(* The inductive invariant.                                                *)
THEOREM Invariance == Spec => []Inv
<1>1. Init => Inv
  BY InitInv
<1>2. Inv /\ [Next]_vars => Inv'
  BY NextInv
<1> QED  BY <1>1, <1>2, PTL DEF Spec

(* The registry, the cache and what requests hold keep their types.        *)
THEOREM TypeCorrect == Spec => []TypeOK
<1>1. Inv => TypeOK
  BY DEF Inv
<1> QED  BY <1>1, Invariance, PTL

(* A mirror URL leads nowhere only if the proxy was restarted since the    *)
(* metadata of the client came from the upstream.                          *)
THEOREM MirrorsResolved == Spec => []MirrorResolved
<1>1. Inv => MirrorResolved
  BY DEF Inv, AnswerOK, MirrorResolved
<1> QED  BY <1>1, Invariance, PTL

(* Archives are those the upstream listed for the reference, or the path.  *)
THEOREM ArchivesRight == Spec => []RightArchive
<1>1. Inv => RightArchive
  <2> SUFFICES ASSUME Inv, NEW c \in Clients,
                      answer[c] # Nil, answer[c].job # Metadata,
                      answer[c].body \notin {Empty, NotFound, Failed}
               PROVE  \E v \in 1..version : \E ref \in DOMAIN Listed[v] :
                        /\ Listed[v][ref] = answer[c].body
                        /\ answer[c].job.kind = "dists" => answer[c].job.ref = ref
                        /\ answer[c].job.kind = "dist" =>
                             answer[c].job.url[1] = answer[c].body[1]
    BY DEF RightArchive
  <2>1. answer[c].job \in Jobs
    BY DEF Inv, TypeOK, Outcomes
  <2>2. Lists(version, Locator(answer[c].job), answer[c].body)
    BY DEF Inv, AnswerOK
  <2> QED  BY <2>1, <2>2, JobKinds DEF Lists
<1> QED  BY <1>1, Invariance, PTL

(* As long as no body was cut, nothing that is cached or under way is      *)
(* empty.                                                                  *)
NoneEmpty == /\ \A l \in Locators : disk[l] # Nil => disk[l].body # Empty
             /\ \A c \in Clients : got[c] # Nil => got[c].body # Empty

LEMMA EmptyNext ==
  ASSUME Inv, [Next]_vars, cuts = 0 => NoneEmpty, cuts' = 0
  PROVE  NoneEmpty'
<1>1. cuts = 0
  <2>1. cuts \in Nat
    BY BoundsType DEF Inv, TypeOK
  <2>2. ASSUME NEW c \in Clients, Handle(c) PROVE cuts' = cuts \/ cuts' = cuts + 1
    BY <2>2 DEF Handle, Lookup, Head, Fetch, Rewrite, Cut, Store
  <2>3. cuts' = cuts \/ cuts' = cuts + 1
    BY <2>2 DEF Next, Publish, Restart, Ask, vars
  <2> QED
    BY <2>1, <2>3
<1>2. NoneEmpty
  BY <1>1
<1>3. ASSUME disk' = disk, NEW c \in Clients, NEW x, x = Nil \/ x.body # Empty, got' = Set(got, c, x)
      PROVE  NoneEmpty'
  BY <1>2, <1>3 DEF NoneEmpty, Set, Inv, TypeOK
<1>4. ASSUME disk' = disk, got' = got PROVE NoneEmpty'
  BY <1>2, <1>4 DEF NoneEmpty
<1>5. CASE Publish \/ UNCHANGED vars
  BY <1>4, <1>5 DEF Publish, vars
<1>6. CASE Restart
  BY <1>2, <1>6 DEF Restart, NoneEmpty
<1>7. ASSUME NEW c \in Clients, NEW j \in Jobs, Ask(c, j) PROVE NoneEmpty'
  BY <1>4, <1>7 DEF Ask
<1>8. ASSUME NEW c \in Clients, Lookup(c) PROVE NoneEmpty'
  <2>1. job[c] \in Jobs
    BY <1>8 DEF Inv, ClientOK, Lookup
  <2>2. Locator(job[c]) \in Locators
    BY <2>1 DEF Locators
  <2> QED
    BY <1>2, <1>3, <1>4, <1>8, <2>2 DEF Lookup, Answer, NoneEmpty
<1>9. ASSUME NEW c \in Clients, Head(c) PROVE NoneEmpty'
  BY <1>3, <1>9 DEF Head, Answer
<1>10. ASSUME NEW c \in Clients, Fetch(c) PROVE NoneEmpty'
  <2>1. Page(version) # Empty
    BY NilFresh DEF Inv, TypeOK, Pages
  <2>2. job[c] \in Jobs
    BY <1>10 DEF Inv, ClientOK, Fetch
  <2>3. (job[c] # Metadata /\ Upstream(job[c]) # Nil) => Upstream(job[c]) # Empty
    <3>1. Empty \notin URLs
      BY NilFresh
    <3> QED
      BY <2>2, <3>1, JobKinds DEF Upstream, Inv, TypeOK
  <2> QED
    BY <1>3, <1>10, <2>1, <2>3 DEF Fetch, Answer, Fetched
<1>11. ASSUME NEW c \in Clients, Cut(c) PROVE FALSE
  BY <1>1, <1>11, BoundsType DEF Cut
<1>12. ASSUME NEW c \in Clients, Store(c) PROVE NoneEmpty'
  <2>1. got[c] # Nil => got[c].body # Empty
    BY <1>2 DEF NoneEmpty
  <2>2. got' = Set(got, c, Nil)
    BY <1>12 DEF Store, Answer
  <2>3. disk' = disk \/ disk' = [disk EXCEPT ![Locator(job[c])] = got[c]]
    BY <1>12 DEF Store
  <2>4. ASSUME NEW l \in Locators, disk'[l] # Nil PROVE disk'[l].body # Empty
    <3>1. disk'[l] = disk[l] \/ disk'[l] = got[c]
      BY <2>3 DEF Inv, TypeOK
    <3> QED
      BY <1>2, <2>1, <2>4, <3>1 DEF NoneEmpty
  <2>5. ASSUME NEW q \in Clients, got'[q] # Nil PROVE got'[q].body # Empty
    <3>1. got'[q] = got[q]
      BY <2>2, <2>5 DEF Set, Inv, TypeOK
    <3> QED
      BY <1>2, <2>5, <3>1 DEF NoneEmpty
  <2> QED
    BY <2>4, <2>5 DEF NoneEmpty
<1>13. ASSUME NEW c \in Clients, Handle(c) PROVE NoneEmpty'
  <2>1. CASE Rewrite(c)
    BY <1>4, <2>1 DEF Rewrite
  <2>2. CASE Cut(c)
    BY <1>11, <2>2
  <2> QED
    BY <1>8, <1>9, <1>10, <1>12, <1>13, <2>1, <2>2 DEF Handle
<1> QED
  BY <1>5, <1>6, <1>7, <1>13 DEF Next

(* Only a body that ended early leaves an empty entry behind: until one    *)
(* did, the cache holds whole bodies (applyHookRewrite).                   *)
THEOREM OnlyCutsEmpty == Spec => [](cuts = 0 => WholeBodies)
<1>1. Init => NoneEmpty
  BY DEF Init, NoneEmpty
<1>2. Inv /\ [Next]_vars /\ (cuts = 0 => NoneEmpty) => (cuts = 0 => NoneEmpty)'
  BY EmptyNext
<1>3. NoneEmpty => WholeBodies
  BY DEF NoneEmpty, WholeBodies
<1> QED  BY <1>1, <1>2, <1>3, Invariance, PTL DEF Spec
=============================================================================
