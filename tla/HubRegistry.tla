---------------------------- MODULE HubRegistry ----------------------------
(***************************************************************************)
(* From a configuration file to the table that routes requests: Load fills *)
(* in the defaults and validates, NewHubRegistry derives the routes, and   *)
(* normalizeHost brings both the Domain of a hub and the Host of a request *)
(* to one form.  Functions of their input, all of them.                    *)
(*                                                                         *)
(* A host is the sequence of the tokens it is written with: names, ports,  *)
(* ":", ".", "[" and "]".  Times are counted in steps of the clock.        *)
(***************************************************************************)
EXTENDS Integers, FiniteSets, CachePolicy

CONSTANTS Tokens,     \* what names, hosts and paths consist of
          Absent,     \* a key that is not in the file
          Lower,      \* function: the lower case of tokens not in lower case
          Ports,      \* tokens strconv.Atoi accepts
          Bad,        \* tokens that contain "/" or a blank, or begin with "http"
          ModuleTTL,  \* ModuleTTL[t]: TTLHint of the module of type t
          DefaultTTL  \* the global CacheTTL where none is given

ASSUME HubRegistryType == /\ ModuleTTL \in [Types -> Nat]
                          /\ DefaultTTL \in Nat \ {0}

(* The tokens of a host that are neither names nor numbers.                *)
Marks == {":", ".", "[", "]"}
ASSUME MarksType == /\ Ports \cap Marks = {}
                    /\ \A t \in DOMAIN Lower : {t, Lower[t]} \cap Marks = {}

None == ""
Hub(name, domain, type, upstream) ==
  [name |-> name, domain |-> domain, type |-> type, upstream |-> upstream,
   ttl |-> 0, mode |-> None, user |-> None, password |-> None, proxy |-> <<>>]

Names == Seq(Tokens)
HubConfig == [name : Names, domain : Names, type : STRING,
              upstream : STRING \X STRING \X Names, ttl : Int, mode : STRING,
              user : STRING, password : STRING,
              proxy : {<<>>} \cup STRING \X STRING \X Names]

-----------------------------------------------------------------------------
(* Load.  In Numbers, what setDefaults gives where the key is absent.      *)
Numbers == [port |-> 5000, ttl |-> DefaultTTL, memory |-> 1, retries |-> 3,
            backoff |-> 1, timeout |-> 1]

(* A configuration file, parsed.                                           *)
FileConfig == [global : [DOMAIN Numbers -> {Absent} \cup Int], level : STRING,
               storage : STRING, hubs : Seq(HubConfig)]

(* setDefaults, then applyGlobalDefaults: for some keys 0 is no value.     *)
Filled(global) ==
  [key \in DOMAIN Numbers |->
     IF \/ global[key] = Absent
        \/ global[key] = 0 /\ key \notin {"memory", "retries"}
     THEN Numbers[key] ELSE global[key]]

(* applyHubDefaults.                                                       *)
Normalized(hub) ==
  [hub EXCEPT !.ttl = IF @ < 0 THEN 0 ELSE @,
              !.mode = IF @ = None THEN "etag" ELSE @]

Loaded(file) == [file EXCEPT !.global = Filled(@),
                             !.hubs = [i \in DOMAIN @ |-> Normalized(@[i])]]

ValidGlobal(g) == /\ g.port \in 1..65535
                  /\ g.ttl > 0 /\ g.memory > 0 /\ g.backoff > 0 /\ g.timeout > 0
                  /\ g.retries >= 0

(* validateUpstream; an upstream is <<scheme, host, path>>.                *)
ValidUpstream(u) == u[1] \in {"http", "https"} /\ u[2] # None

Modes == {"etag", "last-modified", "never"}
ValidHub(hub) == /\ hub.name # <<>>
                 /\ hub.domain # <<>> /\ \A i \in DOMAIN hub.domain : hub.domain[i] \notin Bad
                 /\ hub.type \in Types
                 /\ hub.mode \in Modes
                 /\ (hub.user = None) = (hub.password = None)
                 /\ ValidUpstream(hub.upstream)
                 /\ hub.proxy # <<>> => ValidUpstream(hub.proxy)

(* Config.Validate.                                                        *)
Valid(conf) == /\ ValidGlobal(conf.global)
               /\ conf.storage # None
               /\ conf.hubs # <<>>
               /\ \A i \in DOMAIN conf.hubs :
                    /\ ValidHub(conf.hubs[i])
                    /\ \A j \in 1..(i - 1) : conf.hubs[j].name # conf.hubs[i].name

-----------------------------------------------------------------------------
Places(s, token) == {i \in DOMAIN s : s[i] = token}
LastPlace(s, token) == CHOOSE i \in Places(s, token) : \A j \in Places(s, token) : j <= i

(* net.SplitHostPort accepts one colon and no brackets, or an address in   *)
(* brackets with the last colon behind it.                                 *)
Bracketed(s) == s[1] = "["
Splits(s) ==
  LET colon == LastPlace(s, ":")
  IN  IF Bracketed(s)
      THEN Places(s, "[") = {1} /\ Places(s, "]") = {colon - 1}
      ELSE Places(s, ":") = {colon} /\ Places(s, "[") = {} /\ Places(s, "]") = {}
HostPart(s) == IF Bracketed(s) THEN SubSeq(s, 2, LastPlace(s, ":") - 2)
                               ELSE SubSeq(s, 1, LastPlace(s, ":") - 1)

(* What strconv.Atoi finds behind the last colon is a number.              *)
EndsInPort(s) == LastPlace(s, ":") = Len(s) - 1 /\ Last(s) \in Ports

LowerCase(s) == [i \in DOMAIN s |-> IF s[i] \in DOMAIN Lower THEN Lower[s[i]] ELSE s[i]]
WithoutDot(s) == IF s # <<>> /\ Last(s) = "." THEN Front(s) ELSE s

(* Mutant: only what SplitHostPort accepts, or has no colon, loses a port, *)
(* and the name keeps its final dot.                                       *)
HostWithDot(s) ==
  LowerCase(IF Places(s, ":") # {} /\ Splits(s) THEN HostPart(s) ELSE s)

(* normalizeHost.                                                          *)
WithoutPort(s) == IF Places(s, ":") = {} THEN s
                  ELSE IF Splits(s) THEN HostPart(s)
                  ELSE IF EndsInPort(s) THEN SubSeq(s, 1, LastPlace(s, ":") - 1)
                  ELSE s
NormalHost(s) == LowerCase(WithoutDot(WithoutPort(s)))

-----------------------------------------------------------------------------
EffectiveCacheTTL(conf, hub) == IF hub.ttl > 0 THEN hub.ttl ELSE conf.global.ttl

(* StrategyOverrides and ResolveStrategy: TTLHint of the strategy.         *)
TTLHint(conf, hub) == IF hub.ttl > 0 THEN EffectiveCacheTTL(conf, hub)
                                     ELSE ModuleTTL[hub.type]

(* buildHubRoute.                                                          *)
HubRoute(conf, hub) == [hub |-> hub, ttl |-> TTLHint(conf, hub),
                        validates |-> hub.mode # "never"]

Hosts(conf) == {NormalHost(hub.domain) : hub \in ToSet(conf.hubs)}

(* NewHubRegistry refuses a host that is empty or has two hubs.            *)
Registers(conf) == /\ <<>> \notin Hosts(conf)
                   /\ Cardinality(Hosts(conf)) = Len(conf.hubs)

Registry(conf) ==
  [host \in Hosts(conf) |->
     HubRoute(conf, CHOOSE hub \in ToSet(conf.hubs) : NormalHost(hub.domain) = host)]
=============================================================================
