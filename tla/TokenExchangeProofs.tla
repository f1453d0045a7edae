------------------------ MODULE TokenExchangeProofs ------------------------
(***************************************************************************)
(* Proofs about TokenExchange, for any callers, configurations and bounds.   *)
(*                                                                         *)
(* What a call sends is right because of what it shares: the inductive         *)
(* invariant says that the key of the cache describes the configuration in it,  *)
(* and that a call and the configuration it holds agree, the TLS enforcer       *)
(* included.  A call that sets the enforcer therefore sets what is there.       *)
(* Creds, inductive on top of it, is about the credentials the calls send.       *)
(***************************************************************************)
EXTENDS TokenExchange, SequenceTheorems, TLAPS

TeSet == [url : STRING, style : STRING, client : STRING, trust : STRING, requireTLS : BOOLEAN,
          hasClient : BOOLEAN, idle : BOOLEAN]

PCs == {"config", "get", "exchange", "client", "auth", "request", "response", "ended"}
Tokens == {"none", "subject", "exchanged", "error"}

CallSet == [pc : PCs, snap : Endpoints, bearer : BOOLEAN, since : Nat, cfg : Configs, te : Nat,
            cred : Nat, token : Tokens]

KeySet == [url : STRING, style : STRING, client : STRING, trust : STRING, requireTLS : BOOLEAN]

Shapes ==
  /\ cfg \in Configs /\ snap \in Endpoints
  /\ built \in Seq(TeSet)
  /\ cache \in {Empty} \cup [te : Nat \ {0}, key : KeySet]
  /\ call \in [Callers -> {Idle} \cup CallSet]
  /\ file \in Nat /\ jti \in Nat /\ spent \subseteq Nat

\* The entry in the cache is the one its key describes.
KeyedEntry ==
  cache.te # 0 => /\ cache.te \in 1 .. Len(built)
                  /\ cache.key = newTokenExchangeConfigCacheKey(built[cache.te].url, built[cache.te])

\* What a call has is made for its own snapshot and configuration.
Fits(r, b) ==
  /\ r.te \in 1 .. Len(b)
  /\ b[r.te].url = TokenURL(r.cfg, r.snap)
  /\ b[r.te].style = r.cfg.style
  /\ b[r.te].client = r.cfg.client
  /\ b[r.te].trust = r.cfg.trust
  /\ b[r.te].requireTLS = r.cfg.requireTLS

CallOK(r, b) ==
  /\ r.pc = "exchange" /\ r.te # 0 => Fits(r, b)
  /\ r.pc \in {"client", "auth", "request", "response"} => Fits(r, b)
  /\ r.pc = "response" /\ b[r.te].requireTLS => b[r.te].url \in Secure
  /\ r.pc # "idle" => r.te \in 0 .. Len(b)
  /\ r.pc \in {"config", "get"} => r.te = 0
  /\ r.pc = "ended" /\ r.token = "subject" => ~r.cfg.exchange /\ r.cfg.mode = "passthrough"

HeldFits == \A c \in Callers : CallOK(call[c], built)

Inv == Shapes /\ KeyedEntry /\ HeldFits

-----------------------------------------------------------------------------
(* Steps on the list of configurations. *)

\* Configurations may be added; of those there are, only the client and its
\* connections change.
Kept(b, d) ==
  /\ Len(d) >= Len(b)
  /\ \A i \in 1 .. Len(b) :
       /\ d[i].url = b[i].url /\ d[i].style = b[i].style
       /\ d[i].client = b[i].client /\ d[i].trust = b[i].trust
       /\ d[i].requireTLS = b[i].requireTLS

\* What changes one configuration's client keeps the rest.
LEMMA ChangeKeeps ==
  ASSUME NEW b \in Seq(TeSet), NEW te \in 1 .. Len(b), NEW v \in TeSet,
         v.url = b[te].url, v.style = b[te].style, v.client = b[te].client, v.trust = b[te].trust,
         v.requireTLS = b[te].requireTLS,
         NEW d, d = [b EXCEPT ![te] = v]
  PROVE  d \in Seq(TeSet) /\ Len(d) = Len(b) /\ Kept(b, d)
<1>1. /\ d \in Seq(TeSet) /\ Len(d) = Len(b)
      /\ \A i \in 1 .. Len(b) : d[i] = IF i = te THEN v ELSE b[i]
  BY ExceptSeq
<1>2. QED
  BY <1>1 DEF Kept

LEMMA CloseKeeps ==
  ASSUME built \in Seq(TeSet), NEW te \in 0 .. Len(built)
  PROVE  /\ CloseIdleConnections(te) \in Seq(TeSet)
         /\ Len(CloseIdleConnections(te)) = Len(built)
         /\ Kept(built, CloseIdleConnections(te))
<1>1. CASE te = 0
  BY <1>1 DEF CloseIdleConnections, Kept
<1>2. CASE te # 0
  <2> DEFINE v == [built[te] EXCEPT !.idle = FALSE]
  <2>1. te \in 1 .. Len(built) /\ built[te] \in TeSet
    BY <1>2
  <2>2. CloseIdleConnections(te) = [built EXCEPT ![te] = v]
    BY <1>2 DEF CloseIdleConnections
  <2>3. /\ v \in TeSet
        /\ v.url = built[te].url /\ v.style = built[te].style /\ v.client = built[te].client
        /\ v.trust = built[te].trust /\ v.requireTLS = built[te].requireTLS
    BY <2>1 DEF TeSet
  <2> HIDE DEF v
  <2>4. QED
    BY <2>1, <2>2, <2>3, ChangeKeeps
<1>3. QED
  BY <1>1, <1>2

\* A call is as it should be as long as what it holds is kept.
LEMMA KeptFits ==
  ASSUME NEW b \in Seq(TeSet), NEW d \in Seq(TeSet), Kept(b, d), NEW r \in {Idle} \cup CallSet, CallOK(r, b)
  PROVE  CallOK(r, d)
<1>1. Len(b) \in Nat /\ Len(d) \in Nat
  OBVIOUS
<1>2. QED
  BY <1>1 DEF CallOK, Kept, Fits, CallSet, Idle

\* Only one call and the client of one configuration change.
LEMMA OneCall ==
  ASSUME Shapes, HeldFits, NEW c \in Callers, NEW r \in {Idle} \cup CallSet,
         call' = [call EXCEPT ![c] = r],
         built' \in Seq(TeSet), Kept(built, built'), CallOK(r, built')
  PROVE  call' \in [Callers -> {Idle} \cup CallSet] /\ HeldFits'
<1>1. call' \in [Callers -> {Idle} \cup CallSet]
  BY DEF Shapes
<1>2. ASSUME NEW d \in Callers PROVE CallOK(call'[d], built')
  <2>1. CASE d = c
    BY <2>1 DEF Shapes
  <2>2. CASE d # c
    <3>1. call'[d] = call[d] /\ call[d] \in {Idle} \cup CallSet /\ CallOK(call[d], built)
      BY <2>2 DEF Shapes, HeldFits
    <3>2. QED
      BY <3>1, KeptFits DEF Shapes
  <2>3. QED
    BY <2>1, <2>2
<1>3. QED
  BY <1>1, <1>2 DEF HeldFits

LEMMA EntryStays ==
  ASSUME Shapes, KeyedEntry, UNCHANGED cache, built' \in Seq(TeSet), Kept(built, built')
  PROVE  KeyedEntry'
BY DEF Shapes, KeyedEntry, Kept, newTokenExchangeConfigCacheKey

LEMMA KeptItself == ASSUME built \in Seq(TeSet), UNCHANGED built PROVE built' \in Seq(TeSet) /\ Kept(built, built')
BY DEF Kept

LEMMA EndHolds ==
  ASSUME Shapes, HeldFits, NEW c \in Callers, call[c].pc # "idle", NEW token \in Tokens,
         token = "subject" => ~call[c].cfg.exchange /\ call[c].cfg.mode = "passthrough",
         End(c, token), built' \in Seq(TeSet), Kept(built, built')
  PROVE  call' \in [Callers -> {Idle} \cup CallSet] /\ HeldFits'
<1> DEFINE r == [call[c] EXCEPT !.pc = "ended", !.token = token]
<1>1. call[c] \in CallSet
  BY DEF Shapes, Idle
<1>2. call' = [call EXCEPT ![c] = r]
  BY DEF End
<1>3. r \in CallSet
  BY <1>1 DEF CallSet, PCs
<1>4. CallOK(r, built')
  <2>1. call[c].te \in 0 .. Len(built)
    BY DEF HeldFits, CallOK
  <2>2. Len(built') \in Nat /\ Len(built') >= Len(built) /\ Len(built) \in Nat
    BY DEF Kept, Shapes
  <2>3. QED
    BY <1>1, <2>1, <2>2 DEF CallOK, CallSet
<1> HIDE DEF r
<1>5. QED
  BY <1>2, <1>3, <1>4, OneCall

LEMMA GoHolds ==
  ASSUME Shapes, HeldFits, NEW c \in Callers, call[c].pc # "idle",
         NEW r \in CallSet, call' = [call EXCEPT ![c] = r],
         r.cfg = call[c].cfg, r.snap = call[c].snap, r.te = call[c].te,
         r.pc \in {"client", "auth", "request", "response"}, Fits(call[c], built),
         r.pc = "response" => (built[r.te].requireTLS => built[r.te].url \in Secure),
         built' \in Seq(TeSet), Kept(built, built')
  PROVE  call' \in [Callers -> {Idle} \cup CallSet] /\ HeldFits'
<1>1. CallOK(r, built)
  <2>1. Len(built) \in Nat
    BY DEF Shapes
  <2>2. QED
    BY <2>1 DEF CallOK, Fits
<1>2. CallOK(r, built')
  BY <1>1, KeptFits DEF Shapes
<1>3. QED
  BY <1>2, OneCall

\* The invariant of a step that leaves the cache alone.
LEMMA StepHolds ==
  ASSUME Inv, UNCHANGED cache, built' \in Seq(TeSet), Kept(built, built'),
         call' \in [Callers -> {Idle} \cup CallSet], HeldFits',
         cfg' \in Configs, snap' \in Endpoints, file' \in Nat, jti' \in Nat, spent' \subseteq Nat
  PROVE  Inv'
<1>1. KeyedEntry'
  BY EntryStays DEF Inv
<1>2. Shapes'
  BY DEF Inv, Shapes
<1>3. QED
  BY <1>1, <1>2 DEF Inv

LEMMA InitInv == Init => Inv
BY DEF Init, Inv, Shapes, KeyedEntry, HeldFits, CallOK, Idle, Empty, TeSet

LEMMA StartInv == ASSUME Inv, NEW c \in Callers, Start(c) PROVE Inv'
<1>1. PICK bearer \in BOOLEAN :
        call' = [call EXCEPT ![c] = [pc |-> "config", snap |-> snap, bearer |-> bearer, since |-> file,
                                     cfg |-> cfg, te |-> 0, cred |-> 0, token |-> "none"]]
  BY DEF Start
<1> DEFINE r == [pc |-> "config", snap |-> snap, bearer |-> bearer, since |-> file,
                 cfg |-> cfg, te |-> 0, cred |-> 0, token |-> "none"]
<1>2. r \in CallSet
  BY DEF Inv, Shapes, CallSet, PCs, Tokens
<1>3. built' \in Seq(TeSet) /\ Kept(built, built')
  BY KeptItself DEF Start, Inv, Shapes
<1>4. CallOK(r, built')
  BY <1>3 DEF CallOK
<1>5. call' = [call EXCEPT ![c] = r]
  BY <1>1
<1> HIDE DEF r
<1>6. call' \in [Callers -> {Idle} \cup CallSet] /\ HeldFits'
  BY <1>2, <1>3, <1>4, <1>5, OneCall DEF Inv
<1>7. QED
  BY <1>3, <1>6, StepHolds DEF Start, Inv, Shapes

LEMMA LoadConfigInv == ASSUME Inv, NEW c \in Callers, LoadConfig(c) PROVE Inv'
<1> DEFINE r == [call[c] EXCEPT !.cfg = cfg, !.pc = "get"]
<1>1. call[c] \in CallSet /\ call[c].te = 0
  BY DEF LoadConfig, On, Inv, Shapes, Idle, HeldFits, CallOK
<1>2. r \in CallSet /\ r.te = 0 /\ r.pc = "get"
  BY <1>1 DEF CallSet, Inv, Shapes, PCs
<1>3. built' \in Seq(TeSet) /\ Kept(built, built')
  BY KeptItself DEF LoadConfig, Inv, Shapes
<1>5. call' = [call EXCEPT ![c] = r]
  BY DEF LoadConfig
<1> HIDE DEF r
<1>4. CallOK(r, built')
  BY <1>2, <1>3 DEF CallOK
<1>6. call' \in [Callers -> {Idle} \cup CallSet] /\ HeldFits'
  BY <1>2, <1>3, <1>4, <1>5, OneCall DEF Inv
<1>7. QED
  BY <1>3, <1>6, StepHolds DEF LoadConfig, shared, Inv, Shapes

LEMMA CacheEntry == ASSUME Inv PROVE cache.te \in 0 .. Len(built)
<1>1. CASE cache = Empty
  BY <1>1 DEF Empty, Inv, Shapes
<1>2. CASE cache # Empty
  BY <1>2 DEF Inv, Shapes, KeyedEntry
<1>3. QED
  BY <1>1, <1>2

LEMMA ClearKeeps == ASSUME Inv, clear PROVE built' \in Seq(TeSet) /\ Kept(built, built') /\ KeyedEntry' /\ cache' = Empty
<1>1. built' \in Seq(TeSet) /\ Kept(built, built')
  BY CacheEntry, CloseKeeps DEF clear, Inv, Shapes
<1>2. QED
  BY <1>1 DEF clear, Empty, KeyedEntry

\* getOrReplace: the entry fits whoever asks for it.
LEMMA GetOrReplaceInv ==
  ASSUME Inv, NEW c \in Callers, call[c].pc = "get", UNCHANGED <<shared, left>>,
         getOrReplace(c, TokenURL(call[c].cfg, call[c].snap))
  PROVE  Inv' /\ Kept(built, built')
<1> DEFINE url == TokenURL(call[c].cfg, call[c].snap)
           key == newTokenExchangeConfigCacheKey(url, call[c].cfg)
           hit == cache.te # 0 /\ cache.key = key
           new == Build(url, call[c].cfg)
           r == [call[c] EXCEPT !.pc = "exchange", !.te = cache'.te]
<1>1. call[c] \in CallSet /\ call[c].cfg \in Config /\ call[c].snap \in STRING /\ Len(built) \in Nat
  <2>1. call[c] \in CallSet /\ Len(built) \in Nat
    BY DEF Inv, Shapes, Idle
  <2>2. call[c].cfg \in Configs /\ call[c].snap \in Endpoints
    BY <2>1 DEF CallSet
  <2>3. QED
    BY <2>1, <2>2, ExchangeAssumption
<1>2. url \in STRING
  BY <1>1 DEF TokenURL, Config
<1>3. key \in KeySet
  BY <1>1, <1>2 DEF newTokenExchangeConfigCacheKey, KeySet, Config
<1>4. new \in TeSet
  BY <1>1, <1>2 DEF Build, TeSet, Config
<1>5. call' = [call EXCEPT ![c] = r]
  BY DEF getOrReplace
<1>6. /\ built' \in Seq(TeSet) /\ Kept(built, built')
      /\ cache' \in [te : Nat \ {0}, key : KeySet] /\ KeyedEntry'
      /\ cache'.te \in 1 .. Len(built') /\ cache'.key = key
  <2>1. CASE hit
    <3>1. UNCHANGED <<built, cache>>
      BY <2>1 DEF getOrReplace
    <3>2. cache \in [te : Nat \ {0}, key : KeySet]
      BY <2>1 DEF Inv, Shapes, Empty
    <3>3. built' \in Seq(TeSet) /\ Kept(built, built')
      BY <3>1, KeptItself DEF Inv, Shapes
    <3>4. QED
      BY <2>1, <3>1, <3>2, <3>3 DEF Inv, KeyedEntry, newTokenExchangeConfigCacheKey
  <2>2. CASE ~hit
    <3> DEFINE b == CloseIdleConnections(cache.te)
    <3>1. b \in Seq(TeSet) /\ Len(b) = Len(built) /\ Kept(built, b)
      BY CacheEntry, CloseKeeps DEF Inv, Shapes
    <3>2. built' = Append(b, new) /\ cache' = [te |-> Len(built) + 1, key |-> key]
      BY <2>2 DEF getOrReplace
    <3> HIDE DEF b, new, key
    <3>3. /\ built' \in Seq(TeSet) /\ Len(built') = Len(built) + 1
          /\ \A i \in 1 .. Len(built) : built'[i] = b[i]
          /\ built'[Len(built) + 1] = new
      BY <1>4, <3>1, <3>2, AppendProperties
    <3>4. Kept(built, built')
      BY <1>1, <3>1, <3>3 DEF Kept
    <3>5. /\ cache' \in [te : Nat \ {0}, key : KeySet] /\ cache'.key = key
          /\ cache'.te = Len(built) + 1 /\ cache'.te \in 1 .. Len(built')
      BY <1>1, <1>3, <3>2, <3>3
    <3>6. key = newTokenExchangeConfigCacheKey(new.url, new)
      BY DEF key, new, Build, newTokenExchangeConfigCacheKey
    <3>7. KeyedEntry'
      BY <3>3, <3>5, <3>6 DEF KeyedEntry, newTokenExchangeConfigCacheKey
    <3>8. QED
      BY <3>3, <3>4, <3>5, <3>7
  <2>3. QED
    BY <2>1, <2>2
<1>7. r \in CallSet /\ r.pc = "exchange" /\ r.te = cache'.te /\ r.cfg = call[c].cfg /\ r.snap = call[c].snap
  BY <1>1, <1>6 DEF CallSet, PCs
<1>8. Fits(r, built')
  BY <1>6, <1>7 DEF KeyedEntry, newTokenExchangeConfigCacheKey, Fits
<1>9. CallOK(r, built')
  BY <1>6, <1>7, <1>8 DEF CallOK
<1> HIDE DEF r
<1>10. call' \in [Callers -> {Idle} \cup CallSet] /\ HeldFits'
  BY <1>5, <1>6, <1>7, <1>9, OneCall DEF Inv
<1>11. QED
  BY <1>6, <1>10 DEF Inv, Shapes, shared

LEMMA GetOrBuildInv == ASSUME Inv, NEW c \in Callers, getOrBuildTokenExchangeConfig(c) PROVE Inv' /\ Kept(built, built')
<1> DEFINE url == TokenURL(call[c].cfg, call[c].snap)
           r == [call[c] EXCEPT !.pc = "exchange"]
<1>1. call[c].pc = "get" /\ UNCHANGED <<shared, left>>
  BY DEF getOrBuildTokenExchangeConfig, On
<1>2. CASE call[c].cfg.exchange /\ url # ""
  BY <1>1, <1>2, GetOrReplaceInv DEF getOrBuildTokenExchangeConfig
<1>3. CASE ~(call[c].cfg.exchange /\ url # "")
  <2>1. clear /\ call' = [call EXCEPT ![c] = r]
    BY <1>3 DEF getOrBuildTokenExchangeConfig, Go
  <2>2. built' \in Seq(TeSet) /\ Kept(built, built') /\ KeyedEntry' /\ cache' = Empty
    BY <2>1, ClearKeeps
  <2>3. call[c] \in CallSet /\ call[c].te = 0
    BY <1>1 DEF Inv, Shapes, Idle, HeldFits, CallOK
  <2>4. r \in CallSet /\ r.pc = "exchange" /\ r.te = 0
    BY <2>3 DEF CallSet, PCs
  <2>5. CallOK(r, built')
    BY <2>2, <2>4 DEF CallOK
  <2> HIDE DEF r
  <2>6. call' \in [Callers -> {Idle} \cup CallSet] /\ HeldFits'
    BY <2>1, <2>2, <2>4, <2>5, OneCall DEF Inv
  <2>7. QED
    BY <1>1, <2>2, <2>6 DEF Inv, Shapes, shared
<1>4. QED
  BY <1>2, <1>3

\* The enforcer a call sets is the one that is there.
LEMMA ExchangeInv == ASSUME Inv, NEW c \in Callers, ExchangeTokenInContext(c) PROVE Inv' /\ Kept(built, built')
<1>1. call[c].pc = "exchange" /\ call[c] \in CallSet /\ UNCHANGED <<shared, cache, left>>
  BY DEF ExchangeTokenInContext, On, Inv, Shapes, Idle
<1>2. ASSUME NEW token \in Tokens, End(c, token), UNCHANGED built,
             token = "subject" => ~call[c].cfg.exchange /\ call[c].cfg.mode = "passthrough"
      PROVE  Inv' /\ Kept(built, built')
  <2>1. built' \in Seq(TeSet) /\ Kept(built, built')
    BY <1>2, KeptItself DEF Inv, Shapes
  <2>2. call' \in [Callers -> {Idle} \cup CallSet] /\ HeldFits'
    BY <1>1, <1>2, <2>1, EndHolds DEF Inv
  <2>3. QED
    BY <1>1, <2>1, <2>2, StepHolds DEF shared, Inv, Shapes
<1>3. ASSUME call[c].te # 0, SetRequireTLS(c), Go(c, "client") PROVE Inv' /\ Kept(built, built')
  <2> DEFINE te == call[c].te
             v == [built[te] EXCEPT !.requireTLS = call[c].cfg.requireTLS]
             r == [call[c] EXCEPT !.pc = "client"]
  <2>1. Fits(call[c], built)
    BY <1>1, <1>3 DEF Inv, HeldFits, CallOK
  <2>2. te \in 1 .. Len(built) /\ built[te] \in TeSet /\ built[te].requireTLS = call[c].cfg.requireTLS
    BY <2>1 DEF Fits, Inv, Shapes
  <2>3. /\ v \in TeSet
        /\ v.url = built[te].url /\ v.style = built[te].style /\ v.client = built[te].client
        /\ v.trust = built[te].trust /\ v.requireTLS = built[te].requireTLS
    BY <2>2 DEF TeSet
  <2>4. built' = [built EXCEPT ![te] = v]
    BY <1>3 DEF SetRequireTLS
  <2>5. r \in CallSet /\ r.cfg = call[c].cfg /\ r.snap = call[c].snap /\ r.te = call[c].te /\ r.pc = "client"
    BY <1>1 DEF CallSet, PCs
  <2>6. call' = [call EXCEPT ![c] = r]
    BY <1>3 DEF Go
  <2> HIDE DEF v, r
  <2>7. built' \in Seq(TeSet) /\ Kept(built, built')
    BY <2>2, <2>3, <2>4, ChangeKeeps DEF Inv, Shapes
  <2>8. call' \in [Callers -> {Idle} \cup CallSet] /\ HeldFits'
    BY <1>1, <2>1, <2>5, <2>6, <2>7, GoHolds DEF Inv
  <2>9. QED
    BY <1>1, <2>7, <2>8, StepHolds DEF shared, Inv, Shapes
<1>4. QED
  <2> DEFINE passthrough == call[c].bearer /\ call[c].cfg.mode = "passthrough"
  <2>1. CASE ~passthrough
    BY <1>2, <2>1 DEF ExchangeTokenInContext, Tokens
  <2>2. CASE passthrough /\ ~call[c].cfg.exchange
    BY <1>2, <2>2 DEF ExchangeTokenInContext, Tokens
  <2>3. CASE passthrough /\ call[c].cfg.exchange /\ call[c].te = 0
    BY <1>2, <2>3 DEF ExchangeTokenInContext, Tokens
  <2>4. CASE passthrough /\ call[c].cfg.exchange /\ call[c].te # 0
    BY <1>2, <1>3, <2>4 DEF ExchangeTokenInContext, Tokens
  <2>5. QED
    BY <2>1, <2>2, <2>3, <2>4

\* A call of an exchange that is under way ends with an error or a new token.
LEMMA EndInv ==
  ASSUME Inv, NEW c \in Callers, call[c].pc # "idle", NEW token \in Tokens \ {"subject"}, End(c, token),
         built' \in Seq(TeSet), Kept(built, built'), UNCHANGED <<cfg, snap, cache, file>>,
         jti' \in Nat, spent' \subseteq Nat
  PROVE  Inv'
<1>1. call' \in [Callers -> {Idle} \cup CallSet] /\ HeldFits'
  BY EndHolds DEF Inv
<1>2. QED
  BY <1>1, StepHolds DEF Inv, Shapes

\* A call of an exchange goes on with what it holds.
LEMMA GoInv ==
  ASSUME Inv, NEW c \in Callers, call[c].pc \in {"client", "auth", "request"},
         NEW pc \in {"auth", "request", "response"}, NEW cred \in Nat,
         call' = [call EXCEPT ![c].pc = pc, ![c].cred = cred],
         pc = "response" => (Te(c).requireTLS => Te(c).url \in Secure),
         built' \in Seq(TeSet), Kept(built, built'), UNCHANGED <<cfg, snap, cache, file>>,
         jti' \in Nat, spent' \subseteq Nat
  PROVE  Inv'
<1> DEFINE r == [call[c] EXCEPT !.pc = pc, !.cred = cred]
<1>1. call[c] \in CallSet /\ Fits(call[c], built)
  BY DEF Inv, Shapes, Idle, HeldFits, CallOK
<1>2. /\ r \in CallSet /\ r.cfg = call[c].cfg /\ r.snap = call[c].snap /\ r.te = call[c].te /\ r.pc = pc
      /\ call' = [call EXCEPT ![c] = r]
  BY <1>1 DEF CallSet, PCs
<1> HIDE DEF r
<1>3. call' \in [Callers -> {Idle} \cup CallSet] /\ HeldFits'
  BY <1>1, <1>2, GoHolds DEF Inv, Te
<1>4. QED
  BY <1>3, StepHolds DEF Inv, Shapes

LEMMA UnderWay ==
  ASSUME Inv, NEW c \in Callers, call[c].pc \in {"client", "auth", "request", "response"}
  PROVE  /\ call[c] \in CallSet /\ call[c].te \in 1 .. Len(built) /\ Te(c) \in TeSet
         /\ call[c].cred \in Nat /\ call[c].pc # "idle"
<1>1. call[c] \in CallSet /\ call[c].te \in 1 .. Len(built)
  BY DEF Inv, Shapes, Idle, HeldFits, CallOK, Fits
<1>2. QED
  BY <1>1 DEF CallSet, Te, Inv, Shapes

LEMMA GoOn ==
  ASSUME NEW c \in Callers, Inv, call[c].pc \in {"client", "auth", "request", "response"}, NEW pc, Go(c, pc)
  PROVE  call' = [call EXCEPT ![c].pc = pc, ![c].cred = call[c].cred]
<1>1. call[c] \in CallSet /\ call \in [Callers -> {Idle} \cup CallSet]
  BY UnderWay DEF Inv, Shapes
<1>2. [call[c] EXCEPT !.pc = pc] = [call[c] EXCEPT !.pc = pc, !.cred = call[c].cred]
  BY <1>1 DEF CallSet
<1>3. QED
  BY <1>2 DEF Go

\* The client of a configuration, or its connections, change.
LEMMA ClientKeeps ==
  ASSUME Inv, NEW te \in 1 .. Len(built), NEW b \in BOOLEAN, NEW d,
         d = [built EXCEPT ![te].hasClient = b] \/ d = [built EXCEPT ![te].idle = b]
  PROVE  d \in Seq(TeSet) /\ Kept(built, d)
<1>1. built \in Seq(TeSet) /\ built[te] \in TeSet
  BY DEF Inv, Shapes
<1>2. PICK v : /\ v = [built[te] EXCEPT !.hasClient = b] \/ v = [built[te] EXCEPT !.idle = b]
               /\ d = [built EXCEPT ![te] = v]
  OBVIOUS
<1>3. /\ v \in TeSet
      /\ v.url = built[te].url /\ v.style = built[te].style /\ v.client = built[te].client
      /\ v.trust = built[te].trust /\ v.requireTLS = built[te].requireTLS
  BY <1>1, <1>2 DEF TeSet
<1>4. QED
  BY <1>1, <1>2, <1>3, ChangeKeeps

LEMMA HTTPClientInv == ASSUME Inv, NEW c \in Callers, HTTPClient(c) PROVE Inv' /\ Kept(built, built')
<1>1. call[c].pc = "client" /\ UNCHANGED <<shared, cache>>
  BY DEF HTTPClient, On
<1>2. CASE built' = [built EXCEPT ![call[c].te].hasClient = TRUE] /\ Go(c, "auth")
  <2>1. built' \in Seq(TeSet) /\ Kept(built, built')
    BY <1>1, <1>2, UnderWay, ClientKeeps
  <2>2. QED
    BY <1>1, <1>2, <2>1, UnderWay, GoOn, GoInv DEF shared, Inv, Shapes
<1>3. CASE End(c, "error") /\ UNCHANGED built
  BY <1>1, <1>3, KeptItself, EndInv DEF shared, Inv, Shapes, Tokens
<1>4. QED
  BY <1>2, <1>3 DEF HTTPClient

LEMMA InjectInv == ASSUME Inv, NEW c \in Callers, injectClientAuth(c) PROVE Inv'
<1>1. /\ call[c].pc = "auth" /\ UNCHANGED <<cfg, snap, file, spent, cache>>
      /\ built' \in Seq(TeSet) /\ Kept(built, built')
      /\ file \in Nat /\ jti \in Nat /\ spent \subseteq Nat
  BY KeptItself DEF injectClientAuth, WithAuth, On, Inv, Shapes
<1>2. CASE jti' = jti + 1 /\ call' = [call EXCEPT ![c].pc = "request", ![c].cred = jti + 1]
  <2>1. jti + 1 \in Nat /\ spent' \subseteq Nat
    BY <1>1, <1>2
  <2>2. QED
    BY <1>1, <1>2, <2>1, GoInv
<1>3. CASE UNCHANGED jti /\ call' = [call EXCEPT ![c].pc = "request", ![c].cred = file]
  BY <1>1, <1>3, GoInv
<1>4. CASE UNCHANGED jti /\ End(c, "error")
  BY <1>1, <1>4, EndInv DEF Tokens
<1>5. CASE UNCHANGED jti /\ Go(c, "request")
  <2>1. /\ call' = [call EXCEPT ![c].pc = "request", ![c].cred = call[c].cred]
        /\ call[c].cred \in Nat
    BY <1>1, <1>5, UnderWay, GoOn
  <2>2. QED
    BY <1>1, <1>5, <2>1, GoInv
<1>6. QED
  BY <1>2, <1>3, <1>4, <1>5 DEF injectClientAuth, WithAuth

LEMMA RoundTripInv == ASSUME Inv, NEW c \in Callers, RoundTrip(c) PROVE Inv'
<1>1. /\ call[c].pc = "request" /\ UNCHANGED <<cfg, snap, file, jti, cache>>
      /\ built' \in Seq(TeSet) /\ Kept(built, built')
      /\ jti \in Nat /\ spent \subseteq Nat /\ call[c].cred \in Nat
  BY KeptItself, UnderWay DEF RoundTrip, On, Inv, Shapes
<1>2. spent' \subseteq Nat
  BY <1>1 DEF RoundTrip
<1>3. CASE End(c, "error")
  BY <1>1, <1>2, <1>3, EndInv DEF Tokens
<1>4. CASE Go(c, "response") /\ ~(Te(c).requireTLS /\ Te(c).url \notin Secure)
  <2>1. call' = [call EXCEPT ![c].pc = "response", ![c].cred = call[c].cred]
    BY <1>1, <1>4, GoOn
  <2>2. QED
    BY <1>1, <1>2, <1>4, <2>1, GoInv
<1>5. QED
  BY <1>3, <1>4 DEF RoundTrip

LEMMA RespondInv == ASSUME Inv, NEW c \in Callers, Respond(c) PROVE Inv' /\ Kept(built, built')
<1>1. /\ call[c].pc = "response" /\ UNCHANGED <<cfg, snap, file, jti, spent, cache>>
      /\ jti \in Nat /\ spent \subseteq Nat
  BY DEF Respond, On, shared, Inv, Shapes
<1>2. built' \in Seq(TeSet) /\ Kept(built, built')
  <2>1. CASE built' = [built EXCEPT ![call[c].te].idle = TRUE]
    BY <1>1, <2>1, UnderWay, ClientKeeps
  <2>2. CASE UNCHANGED built
    BY <2>2, KeptItself DEF Inv, Shapes
  <2>3. QED
    BY <2>1, <2>2 DEF Respond
<1>3. PICK token \in {"exchanged", "error"} : End(c, token)
  BY DEF Respond
<1>4. QED
  BY <1>1, <1>2, <1>3, EndInv DEF Tokens

LEMMA ReturnInv == ASSUME Inv, NEW c \in Callers, Return(c) PROVE Inv'
<1>1. /\ call' = [call EXCEPT ![c] = Idle] /\ UNCHANGED <<cfg, snap, file, jti, spent, cache>>
      /\ built' \in Seq(TeSet) /\ Kept(built, built')
  BY KeptItself DEF Return, shared, Inv, Shapes
<1>2. CallOK(Idle, built')
  BY DEF CallOK, Idle
<1>3. call' \in [Callers -> {Idle} \cup CallSet] /\ HeldFits'
  BY <1>1, <1>2, OneCall DEF Inv
<1>4. QED
  BY <1>1, <1>3, StepHolds DEF Inv, Shapes

\* A step of nobody's call: the calls stay, and what they hold is kept.
LEMMA CallsStay ==
  ASSUME Inv, UNCHANGED call, built' \in Seq(TeSet), Kept(built, built')
  PROVE  call' \in [Callers -> {Idle} \cup CallSet] /\ HeldFits'
<1>1. ASSUME NEW d \in Callers PROVE CallOK(call'[d], built')
  <2>1. call[d] \in {Idle} \cup CallSet /\ CallOK(call[d], built)
    BY DEF Inv, Shapes, HeldFits
  <2>2. QED
    BY <2>1, KeptFits DEF Inv, Shapes
<1>2. QED
  BY <1>1 DEF Inv, Shapes, HeldFits

LEMMA ClearInv == ASSUME Inv, Clear PROVE Inv' /\ Kept(built, built')
<1>1. clear /\ UNCHANGED <<cfg, snap, file, jti, spent, call>>
  BY DEF Clear, shared
<1>2. built' \in Seq(TeSet) /\ Kept(built, built') /\ KeyedEntry' /\ cache' = Empty
  BY <1>1, ClearKeeps
<1>3. call' \in [Callers -> {Idle} \cup CallSet] /\ HeldFits'
  BY <1>1, <1>2, CallsStay
<1>4. QED
  BY <1>1, <1>2, <1>3 DEF Inv, Shapes

LEMMA PublishInv == ASSUME Inv, StoreConfig \/ StoreSnapshot \/ RotateFile PROVE Inv'
<1>1. /\ UNCHANGED <<call, built, cache, jti, spent>>
      /\ cfg' \in Configs /\ snap' \in Endpoints /\ file' \in Nat
  BY DEF StoreConfig, StoreSnapshot, RotateFile, Inv, Shapes
<1>2. built' \in Seq(TeSet) /\ Kept(built, built')
  BY <1>1, KeptItself DEF Inv, Shapes
<1>3. call' \in [Callers -> {Idle} \cup CallSet] /\ HeldFits'
  BY <1>1, <1>2, CallsStay
<1>4. QED
  BY <1>1, <1>2, <1>3, StepHolds DEF Inv, Shapes

LEMMA NextInv == Inv /\ [Next]_vars => Inv'
<1> SUFFICES ASSUME Inv, [Next]_vars PROVE Inv'
  OBVIOUS
<1>1. CASE UNCHANGED vars
  <2>1. built' \in Seq(TeSet) /\ Kept(built, built')
    BY <1>1, KeptItself DEF vars, Inv, Shapes
  <2>2. call' \in [Callers -> {Idle} \cup CallSet] /\ HeldFits'
    BY <1>1, <2>1, CallsStay DEF vars
  <2>3. QED
    BY <1>1, <2>1, <2>2, StepHolds DEF vars, Inv, Shapes
<1>2. ASSUME NEW c \in Callers,
             \/ Start(c) \/ LoadConfig(c) \/ getOrBuildTokenExchangeConfig(c)
             \/ ExchangeTokenInContext(c) \/ HTTPClient(c) \/ injectClientAuth(c)
             \/ RoundTrip(c) \/ Respond(c) \/ Return(c)
      PROVE  Inv'
  BY <1>2, StartInv, LoadConfigInv, GetOrBuildInv, ExchangeInv, HTTPClientInv, InjectInv, RoundTripInv,
     RespondInv, ReturnInv
<1>3. CASE Clear \/ StoreConfig \/ StoreSnapshot \/ RotateFile
  BY <1>3, ClearInv, PublishInv
<1>4. QED
  BY <1>1, <1>2, <1>3 DEF Next

LEMMA Invariant == Spec => []Inv
BY InitInv, NextInv, PTL DEF Spec

-----------------------------------------------------------------------------

\* getOrReplace and tokenExchangeConfigCacheKey: whatever is published between a
\* call's two loads or after them, and whoever built the memoized configuration,
\* a token goes to the endpoint, with the client and under the trust, of the
\* configuration the call itself loaded.
THEOREM SharedConfigurationFits == Spec => []ExchangesAsConfigured
<1>1. Inv => ExchangesAsConfigured
  <2> SUFFICES ASSUME Inv, NEW c \in Sent
               PROVE  /\ Te(c).url = TokenURL(call[c].cfg, call[c].snap)
                      /\ \A f \in {"style", "client", "trust"} : Te(c)[f] = call[c].cfg[f]
    BY DEF ExchangesAsConfigured
  <2>1. Fits(call[c], built)
    BY DEF Sent, On, Inv, HeldFits, CallOK
  <2>2. QED
    BY <2>1 DEF Fits, Te
<1>2. QED
  BY <1>1, Invariant, PTL

\* tlsEnforcingTransport: the enforcer is shared and set by every call, and still
\* no call whose configuration requires TLS has sent a token in plain text.
THEOREM EnforcerIsShared == Spec => []TLSIsItsOwn
<1>1. Inv => TLSIsItsOwn
  <2> SUFFICES ASSUME Inv, NEW c \in Callers, call[c].pc = "response", call[c].cfg.requireTLS
               PROVE  Te(c).url \in Secure
    BY DEF TLSIsItsOwn, Sent, On
  <2>1. Fits(call[c], built) /\ (Te(c).requireTLS => Te(c).url \in Secure)
    BY DEF Inv, HeldFits, CallOK, Te
  <2>2. QED
    BY <2>1 DEF Fits, Te
<1>2. QED
  BY <1>1, Invariant, PTL

\* ExchangeTokenInContext: with token_exchange configured, no interleaving of
\* reloads passes the caller's own token on to the cluster.
THEOREM CallersTokenStays == Spec => []SubjectTokenStays
<1>1. Inv => SubjectTokenStays
  BY DEF Inv, HeldFits, CallOK, SubjectTokenStays, On
<1>2. QED
  BY <1>1, Invariant, PTL

\* CloseIdleConnections: in every step, the configuration that leaves the cache
\* has its idle connections closed, by getOrReplace and by clear alike.
THEOREM OldClientIsReleased == Spec => DroppedIsReleased
<1>1. Inv /\ [Next]_vars => (cache.te # 0 /\ cache'.te # cache.te => ~built'[cache.te].idle)
  <2> SUFFICES ASSUME Inv, [Next]_vars, cache.te # 0, cache'.te # cache.te PROVE ~built'[cache.te].idle
    OBVIOUS
  <2> DEFINE b == CloseIdleConnections(cache.te)
  <2>1. cache.te \in 1 .. Len(built) /\ built \in Seq(TeSet) /\ Len(built) \in Nat
    BY CacheEntry DEF Inv, Shapes
  <2>2. b \in Seq(TeSet) /\ Len(b) = Len(built)
    BY CacheEntry, CloseKeeps DEF Inv, Shapes
  <2>3. ~b[cache.te].idle
    <3> DEFINE v == [built[cache.te] EXCEPT !.idle = FALSE]
    <3>1. v \in TeSet /\ ~v.idle
      <4>1. built[cache.te] \in TeSet
        BY <2>1
      <4>2. QED
        BY <4>1 DEF TeSet
    <3>2. b = [built EXCEPT ![cache.te] = v]
      BY <2>1 DEF CloseIdleConnections
    <3> HIDE DEF v, b
    <3>3. b[cache.te] = v
      BY <2>1, <3>1, <3>2, ExceptSeq
    <3>4. QED
      BY <3>1, <3>3
  <2>4. built' = b \/ \E new \in TeSet : built' = Append(b, new)
    <3>1. CASE clear
      BY <3>1 DEF clear
    <3>2. ASSUME NEW c \in Callers, call[c].pc = "get",
                 getOrReplace(c, TokenURL(call[c].cfg, call[c].snap))
          PROVE  \E new \in TeSet : built' = Append(b, new)
      <4> DEFINE url == TokenURL(call[c].cfg, call[c].snap)
      <4>1. built' = Append(b, Build(url, call[c].cfg))
        BY <3>2 DEF getOrReplace
      <4>2. call[c].cfg \in Config /\ call[c].snap \in STRING
        <5>1. call[c] \in CallSet
          BY <3>2 DEF Inv, Shapes, Idle
        <5>2. call[c].cfg \in Configs /\ call[c].snap \in Endpoints
          BY <5>1 DEF CallSet
        <5>3. QED
          BY <5>2, ExchangeAssumption
      <4>3. Build(url, call[c].cfg) \in TeSet
        BY <4>2 DEF Build, TokenURL, TeSet, Config
      <4>4. QED
        BY <4>1, <4>3
    <3>3. clear \/ \E c \in Callers : call[c].pc = "get" /\ getOrReplace(c, TokenURL(call[c].cfg, call[c].snap))
      BY DEF Next, vars, Start, LoadConfig, getOrBuildTokenExchangeConfig, ExchangeTokenInContext, HTTPClient,
             injectClientAuth, WithAuth, RoundTrip, Respond, Return, Clear, StoreConfig, StoreSnapshot,
             RotateFile, On
    <3>4. QED
      BY <3>1, <3>2, <3>3
  <2> HIDE DEF b
  <2>5. QED
    BY <2>1, <2>2, <2>3, <2>4, AppendProperties
<1>2. QED
  BY <1>1, Invariant, PTL DEF Spec, DroppedIsReleased

-----------------------------------------------------------------------------
(* Credentials: assertions are counted, and the token file only grows newer. *)

CredOK(r, b, j, s, f) ==
  /\ r.pc = "request" /\ Style(b[r.te]) = "assertion" => r.cred \in 1 .. j /\ r.cred \notin s
  /\ r.pc # "idle" => r.since <= f
  /\ r.pc \in {"request", "response"} /\ Style(b[r.te]) = "federated" => r.cred >= r.since

Creds ==
  /\ spent \subseteq 1 .. jti
  /\ \A c \in Callers : CredOK(call[c], built, jti, spent, file)
  /\ AssertionsAreUsedOnce

\* The style of what a call holds does not change.
LEMMA StyleStays ==
  ASSUME Inv, Kept(built, built'), NEW c \in Callers, call[c].pc \in {"request", "response"}
  PROVE  Style(built'[call[c].te]) = Style(built[call[c].te])
BY UnderWay DEF Kept, Style

\* A call that is not changed keeps its credential.
LEMMA CredStays ==
  ASSUME Inv, Kept(built, built'), NEW d \in Callers, CredOK(call[d], built, jti, spent, file),
         file' \in Nat, file' >= file, jti' \in Nat, jti' >= jti,
         call[d].pc = "request" /\ Style(built[call[d].te]) = "assertion" => call[d].cred \notin spent'
  PROVE  CredOK(call[d], built', jti', spent', file')
<1>1. file \in Nat /\ jti \in Nat
  BY DEF Inv, Shapes
<1>2. call[d].pc # "idle" => call[d].since \in Nat
  BY DEF Inv, Shapes, Idle, CallSet
<1>3. call[d].pc \in {"request", "response"} => Style(built'[call[d].te]) = Style(built[call[d].te])
  BY StyleStays
<1>4. call[d].pc \in {"request", "response"} => call[d].cred \in Nat
  BY UnderWay
<1>5. QED
  BY <1>1, <1>2, <1>3, <1>4 DEF CredOK

\* A step in which no call gets or sends a credential.
LEMMA NoCred ==
  ASSUME Inv, Inv', Creds, Kept(built, built'), UNCHANGED <<jti, spent>>, file' >= file,
         \A d \in Callers : \/ call'[d] = call[d]
                            \/ /\ call'[d].pc \notin {"request", "response"}
                               /\ call'[d].pc # "idle" => call'[d].since <= file'
  PROVE  Creds'
<1>1. file' \in Nat /\ jti' \in Nat /\ jti' >= jti
  BY DEF Inv, Shapes
<1>2. ASSUME NEW d \in Callers PROVE CredOK(call'[d], built', jti', spent', file')
  <2>1. CASE call'[d] = call[d]
    <3>1. CredOK(call[d], built, jti, spent, file)
      BY DEF Creds
    <3>2. call[d].pc = "request" /\ Style(built[call[d].te]) = "assertion" => call[d].cred \notin spent'
      BY <3>1 DEF CredOK
    <3>3. QED
      BY <1>1, <2>1, <3>1, <3>2, CredStays
  <2>2. CASE call'[d].pc \notin {"request", "response"} /\ (call'[d].pc # "idle" => call'[d].since <= file')
    BY <2>2 DEF CredOK
  <2>3. QED
    BY <2>1, <2>2
<1>3. AssertionsAreUsedOnce'
  <2>1. \A d \in Callers : call'[d].pc = "request" =>
          call'[d] = call[d] /\ Style(built'[call[d].te]) = Style(built[call[d].te])
    BY StyleStays
  <2>2. QED
    BY <2>1 DEF Creds, AssertionsAreUsedOnce, On, Te
<1>4. QED
  BY <1>2, <1>3 DEF Creds

LEMMA EndCall ==
  ASSUME Inv, NEW c \in Callers, call[c].pc # "idle", NEW token, End(c, token)
  PROVE  /\ \A d \in Callers \ {c} : call'[d] = call[d]
         /\ call'[c].pc = "ended" /\ call'[c].since = call[c].since
<1>1. call \in [Callers -> {Idle} \cup CallSet] /\ call[c] \in CallSet
  BY DEF Inv, Shapes, Idle
<1>2. QED
  BY <1>1 DEF End, CallSet

\* A step of one call that does not touch its credential.
LEMMA OtherStep ==
  ASSUME Inv, Inv', Creds, Kept(built, built'), UNCHANGED <<file, jti, spent>>, NEW c \in Callers,
         call[c].pc # "idle", \A d \in Callers \ {c} : call'[d] = call[d],
         call'[c].pc \notin {"request", "response"}, call'[c].pc = "idle" \/ call'[c].since = call[c].since
  PROVE  Creds'
<1>1. file \in Nat
  BY DEF Inv, Shapes
<1>2. call[c].since <= file
  BY DEF Creds, CredOK
<1>3. QED
  BY <1>1, <1>2, NoCred

LEMMA CredsInject == ASSUME Inv, Inv', Creds, NEW c \in Callers, injectClientAuth(c) PROVE Creds'
<1>1. /\ call[c].pc = "auth" /\ UNCHANGED <<cfg, snap, file, spent, built, cache, left>>
      /\ jti \in Nat /\ file \in Nat /\ spent \subseteq 1 .. jti
      /\ call \in [Callers -> {Idle} \cup CallSet] /\ call[c] \in CallSet /\ call[c].since <= file
  BY UnderWay DEF injectClientAuth, WithAuth, On, Inv, Shapes, Creds, CredOK
<1>2. Kept(built, built')
  BY <1>1, KeptItself DEF Inv, Shapes
<1>3. CASE UNCHANGED jti /\ End(c, "error")
  BY <1>1, <1>2, <1>3, EndCall, OtherStep
<1>4. ASSUME NEW cred \in Nat, call' = [call EXCEPT ![c].pc = "request", ![c].cred = cred],
             jti' \in Nat, jti' >= jti,
             Style(Te(c)) = "assertion" => cred = jti + 1 /\ jti' = jti + 1,
             Style(Te(c)) = "federated" => cred = file
      PROVE  Creds'
  <2>1. /\ call'[c].pc = "request" /\ call'[c].cred = cred /\ call'[c].te = call[c].te
        /\ call'[c].since = call[c].since
        /\ \A d \in Callers \ {c} : call'[d] = call[d]
    BY <1>1, <1>4 DEF CallSet
  <2>2. CredOK(call'[c], built', jti', spent', file')
    BY <1>1, <1>4, <2>1 DEF CredOK, Te
  <2>3. ASSUME NEW d \in Callers \ {c} PROVE CredOK(call'[d], built', jti', spent', file')
    <3>1. CredOK(call[d], built, jti, spent, file)
      BY DEF Creds
    <3>2. CredOK(call[d], built', jti', spent', file')
      BY <1>1, <1>2, <1>4, <3>1, CredStays DEF CredOK
    <3>3. QED
      BY <2>1, <3>2
  <2>4. AssertionsAreUsedOnce'
    <3>1. \A d \in Callers \ {c} : On(d, "request") /\ Style(Te(d)) = "assertion" => call[d].cred \in 1 .. jti
      BY DEF Creds, CredOK, On, Te
    <3>2. QED
      BY <1>1, <1>4, <2>1, <2>2, <3>1 DEF Creds, AssertionsAreUsedOnce, On, Te, CredOK
  <2>5. QED
    BY <1>1, <1>4, <2>2, <2>3, <2>4 DEF Creds
<1>5. CASE Style(Te(c)) = "params" /\ Go(c, "request") /\ UNCHANGED jti
  <2>1. call' = [call EXCEPT ![c].pc = "request", ![c].cred = call[c].cred] /\ call[c].cred \in Nat
    BY <1>1, <1>5, UnderWay, GoOn
  <2>2. jti' \in Nat /\ jti' >= jti
    BY <1>1, <1>5
  <2>3. QED
    BY <1>4, <1>5, <2>1, <2>2
<1>6. CASE Style(Te(c)) = "assertion" /\ jti' = jti + 1
           /\ call' = [call EXCEPT ![c].pc = "request", ![c].cred = jti + 1]
  <2>1. jti + 1 \in Nat /\ jti' \in Nat /\ jti' >= jti
    BY <1>1, <1>6
  <2>2. QED
    BY <1>4, <1>6, <2>1
<1>7. CASE Style(Te(c)) = "federated" /\ UNCHANGED jti
           /\ call' = [call EXCEPT ![c].pc = "request", ![c].cred = file]
  <2>1. file \in Nat /\ jti' \in Nat /\ jti' >= jti
    BY <1>1, <1>7
  <2>2. QED
    BY <1>4, <1>7, <2>1
<1>8. QED
  BY <1>3, <1>5, <1>6, <1>7 DEF injectClientAuth, WithAuth

LEMMA CredsRoundTrip == ASSUME Inv, Inv', Creds, NEW c \in Callers, RoundTrip(c) PROVE Creds'
<1>1. /\ call[c].pc = "request" /\ UNCHANGED <<cfg, snap, file, jti, built, cache, left>>
      /\ jti \in Nat /\ file \in Nat /\ spent \subseteq 1 .. jti
      /\ call \in [Callers -> {Idle} \cup CallSet] /\ call[c] \in CallSet
      /\ CredOK(call[c], built, jti, spent, file)
  BY UnderWay DEF RoundTrip, On, Inv, Shapes, Creds
<1>2. Kept(built, built')
  BY <1>1, KeptItself DEF Inv, Shapes
<1>3. CASE UNCHANGED spent /\ End(c, "error")
  BY <1>1, <1>2, <1>3, EndCall, OtherStep
<1>4. CASE /\ Go(c, "response")
           /\ spent' = IF Style(Te(c)) = "assertion" THEN spent \cup {call[c].cred} ELSE spent
  <2>1. /\ call'[c].pc = "response" /\ call'[c].cred = call[c].cred /\ call'[c].te = call[c].te
        /\ call'[c].since = call[c].since
        /\ \A d \in Callers \ {c} : call'[d] = call[d]
    BY <1>1, <1>4 DEF CallSet, Go
  <2>2. spent' \subseteq 1 .. jti
    BY <1>1, <1>4 DEF CredOK, Te
  <2>3. CredOK(call'[c], built', jti', spent', file')
    BY <1>1, <2>1 DEF CredOK
  <2>4. ASSUME NEW d \in Callers \ {c}, call[d].pc = "request", Style(built[call[d].te]) = "assertion"
        PROVE  call[d].cred \notin spent'
    BY <1>1, <1>4, <2>4 DEF Creds, AssertionsAreUsedOnce, On, Te
  <2>5. ASSUME NEW d \in Callers \ {c} PROVE CredOK(call'[d], built', jti', spent', file')
    <3>1. CredOK(call[d], built, jti, spent, file)
      BY DEF Creds
    <3>2. CredOK(call[d], built', jti', spent', file')
      BY <1>1, <1>2, <2>4, <3>1, CredStays
    <3>3. QED
      BY <2>1, <3>2
  <2>6. AssertionsAreUsedOnce'
    BY <1>1, <2>1, <2>4 DEF Creds, AssertionsAreUsedOnce, On, Te
  <2>7. QED
    BY <1>1, <2>2, <2>3, <2>5, <2>6 DEF Creds
<1>5. QED
  BY <1>3, <1>4 DEF RoundTrip

\* A call of pc "ended", or any other before its credential or after it.
LEMMA CredsOther ==
  ASSUME Inv, Inv', Creds, NEW c \in Callers,
         \/ LoadConfig(c) \/ getOrBuildTokenExchangeConfig(c) \/ ExchangeTokenInContext(c)
         \/ HTTPClient(c) \/ Respond(c) \/ Return(c)
  PROVE  Creds'
<1>1. /\ call[c].pc # "idle" /\ call[c] \in CallSet /\ UNCHANGED <<file, jti, spent>>
  <2>1. call[c].pc # "idle" /\ UNCHANGED shared
    BY DEF LoadConfig, getOrBuildTokenExchangeConfig, ExchangeTokenInContext, HTTPClient, Respond, Return, On
  <2>2. call[c] \in CallSet
    BY <2>1 DEF Inv, Shapes, Idle
  <2>3. QED
    BY <2>1, <2>2 DEF shared
<1>2. Kept(built, built')
  BY GetOrBuildInv, ExchangeInv, HTTPClientInv, RespondInv, KeptItself DEF LoadConfig, Return, Inv, Shapes
<1>3. /\ \A d \in Callers \ {c} : call'[d] = call[d]
      /\ call'[c].pc \notin {"request", "response"}
      /\ call'[c].pc = "idle" \/ call'[c].since = call[c].since
  <2>1. call \in [Callers -> {Idle} \cup CallSet]
    BY DEF Inv, Shapes
  <2>2. CASE LoadConfig(c)
    BY <1>1, <2>1, <2>2 DEF LoadConfig, CallSet
  <2>3. ASSUME NEW pc \in {"exchange", "client", "auth"}, Go(c, pc) PROVE <1>3
    BY <1>1, <2>1, <2>3 DEF Go, CallSet
  <2>4. CASE getOrBuildTokenExchangeConfig(c)
    <3>1. CASE Go(c, "exchange")
      BY <2>3, <3>1
    <3>2. CASE call' = [call EXCEPT ![c].pc = "exchange", ![c].te = cache'.te]
      BY <1>1, <2>1, <3>2 DEF CallSet
    <3>3. QED
      BY <2>4, <3>1, <3>2 DEF getOrBuildTokenExchangeConfig, getOrReplace
  <2>5. CASE ExchangeTokenInContext(c)
    BY <1>1, <2>3, <2>5, EndCall DEF ExchangeTokenInContext
  <2>6. CASE HTTPClient(c)
    BY <1>1, <2>3, <2>6, EndCall DEF HTTPClient
  <2>7. CASE Respond(c)
    BY <1>1, <2>7, EndCall DEF Respond
  <2>8. CASE Return(c)
    BY <1>1, <2>1, <2>8 DEF Return, Idle
  <2>9. QED
    BY <2>2, <2>4, <2>5, <2>6, <2>7, <2>8
<1>4. QED
  BY <1>1, <1>2, <1>3, OtherStep

LEMMA CredsStart == ASSUME Inv, Inv', Creds, NEW c \in Callers, Start(c) PROVE Creds'
<1>1. /\ UNCHANGED <<built, file, jti, spent>> /\ file \in Nat
      /\ call \in [Callers -> {Idle} \cup CallSet]
      /\ call'[c].pc = "config" /\ call'[c].since = file
      /\ \A d \in Callers \ {c} : call'[d] = call[d]
  BY DEF Start, Inv, Shapes
<1>2. Kept(built, built')
  BY <1>1, KeptItself DEF Inv, Shapes
<1>3. \A d \in Callers : \/ call'[d] = call[d]
                         \/ /\ call'[d].pc \notin {"request", "response"}
                            /\ call'[d].pc # "idle" => call'[d].since <= file'
  BY <1>1
<1>4. QED
  BY <1>1, <1>2, <1>3, NoCred

LEMMA CredsChange ==
  ASSUME Inv, Inv', Creds, Clear \/ StoreConfig \/ StoreSnapshot \/ RotateFile \/ UNCHANGED vars
  PROVE  Creds'
<1>1. UNCHANGED <<call, jti, spent>> /\ file' >= file
  BY DEF Clear, StoreConfig, StoreSnapshot, RotateFile, vars, shared, Inv, Shapes
<1>2. Kept(built, built')
  BY ClearInv, KeptItself DEF StoreConfig, StoreSnapshot, RotateFile, vars, Inv, Shapes
<1>3. QED
  BY <1>1, <1>2, NoCred

LEMMA CredsNext == Inv /\ Inv' /\ Creds /\ [Next]_vars => Creds'
<1> SUFFICES ASSUME Inv, Inv', Creds, [Next]_vars PROVE Creds'
  OBVIOUS
<1>1. ASSUME NEW c \in Callers,
             \/ Start(c) \/ LoadConfig(c) \/ getOrBuildTokenExchangeConfig(c)
             \/ ExchangeTokenInContext(c) \/ HTTPClient(c) \/ injectClientAuth(c)
             \/ RoundTrip(c) \/ Respond(c) \/ Return(c)
      PROVE  Creds'
  BY <1>1, CredsStart, CredsOther, CredsInject, CredsRoundTrip
<1>2. QED
  BY <1>1, CredsChange DEF Next

LEMMA CredsInvariant == Spec => []Creds
<1>1. Init => Creds
  BY DEF Init, Creds, CredOK, AssertionsAreUsedOnce, On, Idle
<1>2. QED
  BY <1>1, Invariant, CredsNext, PTL DEF Spec

\* BuildAssertion: however many exchanges run at once, through one configuration
\* or several, no assertion goes to the token endpoint a second time.
THEOREM AssertionsAreSingleUse == Spec => []AssertionsAreUsedOnce
<1>1. Creds => AssertionsAreUsedOnce
  BY DEF Creds
<1>2. QED
  BY <1>1, CredsInvariant, PTL

\* injectClientAuth: a federated token that had been rotated away when a call came
\* is not sent for it, although its configuration is memoized.
THEOREM RotatedTokenIsNotSent == Spec => []FederatedTokenIsCurrent
<1>1. Creds => FederatedTokenIsCurrent
  BY DEF Creds, CredOK, FederatedTokenIsCurrent, Sent, On, Te
<1>2. QED
  BY <1>1, CredsInvariant, PTL

\* The entry of the cache and the configuration a call holds are ones that were
\* built, the key is the entry's, and only assertions that were made were sent.
THEOREM ExchangeTypeCorrect == Spec => []TypeOK
<1>1. Inv /\ Creds => TypeOK
  <2> SUFFICES ASSUME Inv, Creds PROVE TypeOK
    OBVIOUS
  <2>1. cache.te \in 0 .. Len(built)
    BY CacheEntry
  <2>2. \A c \in Callers \ {d \in Callers : On(d, "idle")} : call[c].te \in 0 .. Len(built)
    BY DEF On, Inv, HeldFits, CallOK
  <2>3. cache.te # 0 => \A f \in {"url", "style", "client"} : built[cache.te][f] = cache.key[f]
    BY DEF Inv, KeyedEntry, newTokenExchangeConfigCacheKey
  <2>4. QED
    BY <2>1, <2>2, <2>3 DEF TypeOK, Creds, Inv, Shapes
<1>2. QED
  BY <1>1, Invariant, CredsInvariant, PTL

\* ExchangeTokenInContext and tlsEnforcingTransport guard the caller's token in
\* every interleaving of calls and reloads.
THEOREM CallersTokenIsGuarded == Spec => []TokenIsGuarded
BY EnforcerIsShared, CallersTokenStays, PTL DEF TokenIsGuarded

\* injectClientAuth: neither an assertion nor a federated token is kept.
THEOREM NoCredentialIsKept == Spec => []CredentialsAreFresh
BY AssertionsAreSingleUse, RotatedTokenIsNotSent, PTL DEF CredentialsAreFresh
=============================================================================
