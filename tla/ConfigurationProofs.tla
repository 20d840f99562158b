------------------------- MODULE ConfigurationProofs -------------------------
(* Proofs about what is kept for the user on the disk, the configuration     *)
(* (ConfigStore), the installed release (CliUpdate) and the local memory     *)
(* (MemoryStore), and about the calls of the models that are configured      *)
(* (ProviderCall).  Each has an inductive invariant of its own, of the       *)
(* instance MCPlatform makes of its module; the theorems at the end state,   *)
(* for every value of the constants, what the platform run checks of them.   *)
EXTENDS MCPlatform, FiniteSetTheorems, TLAPS

(* The configuration (ConfigStore).                                          *)

ConfigKeysApart == "mask" \notin Keys

(* What may be written: an account with no mask for a key, and with none     *)
(* when the key is kept somewhere else.                                      *)
ConfigIsAccount(a) == a = Config!Account(a.provider, a.key, a.stored)
ConfigGood(a) == ConfigIsAccount(a) /\ a.key # "mask" /\ (~a.stored => a.key = "none")

ConfigIsConfig(c) ==
  /\ c = [llm |-> c.llm, profiles |-> c.profiles, pool |-> c.pool, mcp |-> c.mcp]
  /\ c.profiles = [n \in Names |-> c.profiles[n]] /\ c.pool = [e \in Ids |-> c.pool[e]]
ConfigGoodConfig(c) ==
  /\ ConfigIsConfig(c) /\ ConfigGood(c.llm)
  /\ \A n \in Names : \A p \in c.profiles[n] : ConfigGood(p) /\ \A q \in c.profiles[n] : p = q
  /\ \A e \in Ids : \A a \in c.pool[e] : ConfigGood(a)

ConfigIsDialog(d) ==
  /\ d = [draft |-> d.draft, profiles |-> d.profiles, seen |-> d.seen, asShown |-> d.asShown]
  /\ d.profiles = [n \in Names |-> d.profiles[n]]
  /\ ConfigIsAccount(d.draft) /\ \A n \in Names : \A p \in d.profiles[n] : ConfigIsAccount(p)

ConfigIsReq(r) ==
  /\ r = [step |-> r.step, op |-> r.op, next |-> r.next, raced |-> r.raced, asShown |-> r.asShown]
  /\ r.step \in {"idle", "read", "emptied"}

ConfigTyped ==
  /\ file = [whole |-> file.whole, cfg |-> file.cfg] /\ ConfigGoodConfig(file.cfg)
  /\ req = [w \in Config!Writers |-> req[w]] /\ \A w \in Config!Writers : ConfigIsReq(req[w]) /\ ConfigGoodConfig(req[w].next)
  /\ ConfigIsDialog(dialog)

(* What a request of this kind, with this outcome, makes of what was saved.  *)
ConfigAdding(c, op, n) ==
  CASE op \in {"llm", "apply"} -> [c EXCEPT !.llm = n.llm]
    [] op = "profiles" -> [c EXCEPT !.profiles = n.profiles]
    [] op = "pool" -> [c EXCEPT !.pool = n.pool]
    [] op = "all" -> n

(* While requests do not overlap, one at a time is under way; it will add    *)
(* its part; and between the emptying and the filling the file is unreadable.*)
ConfigInTurn ==
  ~spoiled =>
    /\ \A v, w \in Config!Writers : req[v].step # "idle" /\ req[w].step # "idle" => v = w
    /\ \A w \in Config!Writers :
         /\ ~req[w].raced
         /\ req[w].step = "emptied" => ~file.whole
         /\ req[w].step # "idle" => req[w].next = ConfigAdding(expected, req[w].op, req[w].next)
         /\ req[w].step # "idle" /\ req[w].asShown /\ req[w].op = "llm" => req[w].next = expected
    /\ (\A w \in Config!Writers : req[w].step # "emptied") => file.whole /\ file.cfg = expected

(* A dialog nobody touched shows what will be saved when its own request is  *)
(* done.                                                                     *)
ConfigCurrent == IF req["dialog"].step = "idle" THEN expected ELSE req["dialog"].next
ConfigShows(d, c) ==
  /\ d.draft = Config!KeyField(c.llm)
  /\ \A n \in Names : /\ n \in d.seen => d.profiles[n] = {Config!Masked(p) : p \in c.profiles[n]}
                      /\ d.profiles[n] = {} => c.profiles[n] = {}
ConfigUntouched == dialog.asShown /\ ~spoiled => req["other"].step = "idle" /\ ConfigShows(dialog, ConfigCurrent)

ConfigIInv == ConfigTyped /\ ConfigInTurn /\ ConfigUntouched /\ Config!SavesAddUp

-----------------------------------------------------------------------------
(* Accounts.                                                                 *)

LEMMA ConfigRekeyed ==
  ASSUME NEW a, ConfigIsAccount(a), NEW key, NEW b, b = [a EXCEPT !.key = key]
  PROVE  ConfigIsAccount(b) /\ b.provider = a.provider /\ b.key = key /\ b.stored = a.stored
<1>1. PICK p, k, s : a = Config!Account(p, k, s)
  BY DEF ConfigIsAccount
<1>2. b = Config!Account(p, key, s)
  BY <1>1 DEF Config!Account
<1> QED BY <1>1, <1>2 DEF Config!Account, ConfigIsAccount

LEMMA ConfigSameAccount ==
  ASSUME NEW a, ConfigIsAccount(a), NEW b, ConfigIsAccount(b), a.provider = b.provider, a.key = b.key, a.stored = b.stored
  PROVE  a = b
BY DEF ConfigIsAccount

LEMMA ConfigMadeAccount == ASSUME NEW p, NEW k, NEW s PROVE ConfigIsAccount(Config!Account(p, k, s))
BY DEF ConfigIsAccount, Config!Account

(* What is kept of an account that was sent can be written.                  *)
LEMMA ConfigKeptIsGood ==
  ASSUME NEW sent, ConfigIsAccount(sent), NEW existing, \A a \in existing : ConfigGood(a)
  PROVE  ConfigGood(Config!Kept(sent, existing))
<1>1. PICK k : k = Config!PersistableApiKey(sent, existing)
  OBVIOUS
<1>2. k # "mask" /\ (~sent.stored => k = "none")
  <2>1. CASE sent.stored /\ sent.key \in {"mask", "none"} /\ existing # {}
    BY <1>1, <2>1 DEF Config!PersistableApiKey, ConfigGood
  <2>2. CASE ~(sent.stored /\ sent.key \in {"mask", "none"} /\ existing # {})
    BY <1>1, <2>2 DEF Config!PersistableApiKey
  <2> QED BY <2>1, <2>2
<1>3. PICK b : b = [sent EXCEPT !.key = k]
  OBVIOUS
<1>4. ConfigGood(b)
  BY <1>2, <1>3, ConfigRekeyed DEF ConfigGood
<1> QED BY <1>1, <1>3, <1>4 DEF Config!Kept

(* What the dialog shows of an account is kept as that account.              *)
LEMMA ConfigShownIsKept ==
  ASSUME NEW a, ConfigGood(a)
  PROVE  Config!Kept(Config!KeyField(a), {a}) = a
<1>1. PICK f : f = Config!KeyField(a)
  OBVIOUS
<1>2. ConfigIsAccount(f) /\ f.provider = a.provider /\ f.stored = a.stored
        /\ f.key = IF a.key = "none" THEN "blank" ELSE "mask"
  BY <1>1, ConfigRekeyed DEF Config!KeyField, ConfigGood
<1>3. PICK b : b = Config!Kept(f, {a})
  OBVIOUS
<1>4. Config!PersistableApiKey(f, {a}) = a.key
  BY <1>2 DEF Config!PersistableApiKey, ConfigGood
<1>5. ConfigIsAccount(b) /\ b.provider = a.provider /\ b.stored = a.stored /\ b.key = a.key
  BY <1>2, <1>3, <1>4, ConfigRekeyed DEF Config!Kept
<1> QED BY <1>1, <1>3, <1>5, ConfigSameAccount DEF ConfigGood

LEMMA ConfigFieldIsAccount ==
  ASSUME NEW a, ConfigIsAccount(a)
  PROVE  ConfigIsAccount(Config!KeyField(a)) /\ ConfigIsAccount(Config!Masked(a))
BY ConfigRekeyed DEF Config!KeyField, Config!Masked

(* A profile is shown in the draft as it would be after loading it.          *)
LEMMA ConfigApplyShows ==
  ASSUME NEW a, ConfigIsAccount(a), NEW m, m = Config!Masked(a)
  PROVE  [m EXCEPT !.key = IF @ = "none" THEN "blank" ELSE @] = Config!KeyField(a)
<1>1. ConfigIsAccount(m) /\ m.provider = a.provider /\ m.stored = a.stored
        /\ m.key = IF a.key = "none" THEN "none" ELSE "mask"
  BY ConfigRekeyed DEF Config!Masked
<1>2. PICK k : k = IF m.key = "none" THEN "blank" ELSE m.key
  OBVIOUS
<1>3. PICK d : d = [m EXCEPT !.key = k]
  OBVIOUS
<1>4. PICK f : f = Config!KeyField(a)
  OBVIOUS
<1>5. ConfigIsAccount(f) /\ f.provider = a.provider /\ f.stored = a.stored
        /\ f.key = IF a.key = "none" THEN "blank" ELSE "mask"
  BY <1>4, ConfigRekeyed DEF Config!KeyField
<1>6. d = f
  BY <1>1, <1>2, <1>3, <1>5, ConfigRekeyed, ConfigSameAccount
<1> QED BY <1>2, <1>3, <1>4, <1>6

-----------------------------------------------------------------------------
(* Configurations: what each request makes of one.                           *)
ConfigConfigOf(l, p, o, m) == [llm |-> l, profiles |-> p, pool |-> o, mcp |-> m]

LEMMA ConfigParts ==
  ASSUME NEW c, ConfigIsConfig(c)
  PROVE  \E l, p, o, m : c = ConfigConfigOf(l, p, o, m) /\ c.llm = l /\ c.profiles = p /\ c.pool = o
BY DEF ConfigIsConfig, ConfigConfigOf

(* A configuration that differs in the account is good with a good one.      *)
LEMMA ConfigOtherLlm ==
  ASSUME NEW c, ConfigGoodConfig(c), NEW a, ConfigGood(a), NEW d, d = [c EXCEPT !.llm = a], NEW op \in {"llm", "apply"}
  PROVE  ConfigGoodConfig(d) /\ d.llm = a /\ d.profiles = c.profiles /\ d = ConfigAdding(c, op, d)
<1>1. PICK l, p, o, m : c = ConfigConfigOf(l, p, o, m) /\ c.llm = l /\ c.profiles = p /\ c.pool = o
  BY ConfigParts DEF ConfigGoodConfig
<1>2. d = ConfigConfigOf(a, p, o, m)
  BY <1>1 DEF ConfigConfigOf
<1>3. d.llm = a /\ d.profiles = c.profiles /\ d.pool = c.pool
  BY <1>1, <1>2 DEF ConfigConfigOf
<1>4. ConfigIsConfig(d)
  BY <1>1, <1>2, <1>3 DEF ConfigIsConfig, ConfigGoodConfig, ConfigConfigOf
<1>5. ConfigGoodConfig(d)
  BY <1>3, <1>4 DEF ConfigGoodConfig
<1> QED BY <1>3, <1>5 DEF ConfigAdding

(* A configuration with one profile replaced.                                *)
ConfigWithProfile(c, name, kept) == [c EXCEPT !.profiles[name] = kept]

LEMMA ConfigOtherProfile ==
  ASSUME NEW c, ConfigGoodConfig(c), NEW name \in Names, NEW kept, \A p \in kept : ConfigGood(p),
         \A p, q \in kept : p = q, NEW d, d = ConfigWithProfile(c, name, kept)
  PROVE  /\ ConfigGoodConfig(d) /\ d.llm = c.llm /\ d = ConfigAdding(c, "profiles", d)
         /\ \A n \in Names : n = name => d.profiles[n] = kept
         /\ \A n \in Names : n # name => d.profiles[n] = c.profiles[n]
<1>1. PICK l, p, o, m : c = ConfigConfigOf(l, p, o, m) /\ c.llm = l /\ c.profiles = p /\ c.pool = o
  BY ConfigParts DEF ConfigGoodConfig
<1>2. PICK f : f = [p EXCEPT ![name] = kept]
  OBVIOUS
<1>3. d = ConfigConfigOf(l, f, o, m)
  BY <1>1, <1>2 DEF ConfigConfigOf, ConfigWithProfile
<1>4. d.llm = l /\ d.profiles = f /\ d.pool = o
  BY <1>3 DEF ConfigConfigOf
<1>5. f = [n \in Names |-> f[n]] /\ \A n \in Names : f[n] = IF n = name THEN kept ELSE p[n]
  BY <1>1, <1>2 DEF ConfigGoodConfig, ConfigIsConfig
<1>6. ConfigIsConfig(d)
  BY <1>1, <1>3, <1>4, <1>5 DEF ConfigIsConfig, ConfigGoodConfig, ConfigConfigOf
<1>7. ConfigGoodConfig(d)
  BY <1>1, <1>4, <1>5, <1>6 DEF ConfigGoodConfig
<1>8. d = ConfigAdding(c, "profiles", d)
  <2>1. ConfigAdding(c, "profiles", d) = [c EXCEPT !.profiles = d.profiles]
    BY DEF ConfigAdding
  <2>2. PICK g : g = [c EXCEPT !.profiles = f]
    OBVIOUS
  <2>3. g = ConfigConfigOf(l, f, o, m)
    BY <1>1, <2>2 DEF ConfigConfigOf
  <2> QED BY <1>3, <1>4, <2>1, <2>2, <2>3
<1> QED BY <1>1, <1>4, <1>5, <1>7, <1>8

LEMMA ConfigOtherPool ==
  ASSUME NEW c, ConfigGoodConfig(c), NEW id \in Ids, NEW kept, \A a \in kept : ConfigGood(a),
         NEW d, d = [c EXCEPT !.pool[id] = kept]
  PROVE  ConfigGoodConfig(d) /\ d.llm = c.llm /\ d.profiles = c.profiles /\ d = ConfigAdding(c, "pool", d)
<1>1. PICK l, p, o, m : c = ConfigConfigOf(l, p, o, m) /\ c.llm = l /\ c.profiles = p /\ c.pool = o
  BY ConfigParts DEF ConfigGoodConfig
<1>2. PICK f : f = [o EXCEPT ![id] = kept]
  OBVIOUS
<1>3. d = ConfigConfigOf(l, p, f, m)
  BY <1>1, <1>2 DEF ConfigConfigOf
<1>4. d.llm = l /\ d.profiles = p /\ d.pool = f
  BY <1>3 DEF ConfigConfigOf
<1>5. f = [e \in Ids |-> f[e]] /\ \A e \in Ids : f[e] = IF e = id THEN kept ELSE o[e]
  BY <1>1, <1>2 DEF ConfigGoodConfig, ConfigIsConfig
<1>6. ConfigIsConfig(d)
  BY <1>1, <1>3, <1>4, <1>5 DEF ConfigIsConfig, ConfigGoodConfig, ConfigConfigOf
<1>7. ConfigGoodConfig(d)
  BY <1>1, <1>4, <1>5, <1>6 DEF ConfigGoodConfig
<1>8. d = ConfigAdding(c, "pool", d)
  <2>1. ConfigAdding(c, "pool", d) = [c EXCEPT !.pool = d.pool]
    BY DEF ConfigAdding
  <2>2. PICK g : g = [c EXCEPT !.pool = f]
    OBVIOUS
  <2>3. g = ConfigConfigOf(l, p, f, m)
    BY <1>1, <2>2 DEF ConfigConfigOf
  <2> QED BY <1>3, <1>4, <2>1, <2>2, <2>3
<1> QED BY <1>1, <1>4, <1>7, <1>8

LEMMA ConfigNewAccount ==
  ASSUME NEW p, NEW k, k # "mask"
  PROVE  ConfigGood(Config!Account(p, k, TRUE))
BY DEF ConfigGood, ConfigIsAccount, Config!Account

LEMMA ConfigFreshConfig ==
  ASSUME NEW a, ConfigGood(a), NEW d, NEW mcp, d = ConfigConfigOf(a, [n \in Names |-> {}], [e \in Ids |-> {}], mcp)
  PROVE  ConfigGoodConfig(d)
<1>1. d.llm = a /\ d.profiles = [n \in Names |-> {}] /\ d.pool = [e \in Ids |-> {}]
  BY DEF ConfigConfigOf
<1>2. (\A n \in Names : d.profiles[n] = {}) /\ (\A e \in Ids : d.pool[e] = {})
  BY <1>1
<1>3. ConfigIsConfig(d)
  BY <1>1 DEF ConfigIsConfig, ConfigConfigOf
<1> QED BY <1>1, <1>2, <1>3 DEF ConfigGoodConfig

LEMMA ConfigGoodDefaults == ConfigGoodConfig(Config!Defaults)
BY ConfigNewAccount, ConfigFreshConfig DEF Config!Defaults, ConfigConfigOf

LEMMA ConfigSetUpIsGood ==
  ASSUME NEW p, NEW k, k # "mask"
  PROVE  ConfigGoodConfig(Config!SetUp(p, k))
<1>1. PICK a : a = Config!Account(p, k, TRUE)
  OBVIOUS
<1>2. PICK c : c = ConfigConfigOf(Config!Account(First, "none", TRUE), [n \in Names |-> {}], [e \in Ids |-> {}], FALSE)
  OBVIOUS
<1>3. PICK d : d = [c EXCEPT !.llm = a]
  OBVIOUS
<1>4. d = ConfigConfigOf(a, [n \in Names |-> {}], [e \in Ids |-> {}], FALSE)
  BY <1>2, <1>3 DEF ConfigConfigOf
<1>5. Config!Defaults = c
  BY <1>2 DEF Config!Defaults, ConfigConfigOf
<1>6. Config!SetUp(p, k) = d
  BY <1>1, <1>3, <1>5 DEF Config!SetUp
<1> QED BY <1>1, <1>4, <1>6, ConfigNewAccount, ConfigFreshConfig

LEMMA ConfigReadIsGood == ASSUME ConfigTyped PROVE ConfigGoodConfig(Config!Read)
BY ConfigGoodDefaults DEF ConfigTyped, Config!Read

LEMMA ConfigSaveLlmIs ==
  ASSUME NEW c, ConfigGoodConfig(c), NEW sent, ConfigIsAccount(sent), NEW op \in {"llm", "apply"}, NEW d, d = Config!SaveLlm(c, sent)
  PROVE  ConfigGoodConfig(d) /\ d.llm = Config!Kept(sent, {c.llm}) /\ d.profiles = c.profiles /\ d = ConfigAdding(c, op, d)
<1>1. PICK a : a = Config!Kept(sent, {c.llm})
  OBVIOUS
<1>2. ConfigGood(a)
  BY <1>1, ConfigKeptIsGood DEF ConfigGoodConfig
<1> QED BY <1>1, <1>2, ConfigOtherLlm DEF Config!SaveLlm

LEMMA ConfigSaveProfileIs ==
  ASSUME NEW c, ConfigGoodConfig(c), NEW name \in Names, NEW sent, ConfigIsAccount(sent), NEW d, d = Config!SaveProfile(c, name, sent)
  PROVE  /\ ConfigGoodConfig(d) /\ d.llm = c.llm /\ d = ConfigAdding(c, "profiles", d)
         /\ \A n \in Names : n # name => d.profiles[n] = c.profiles[n]
<1>1. PICK existing : existing = IF c.profiles[name] # {} THEN c.profiles[name]
                                 ELSE {a \in {c.llm} : a.provider = sent.provider}
  OBVIOUS
<1>2. \A a \in existing : ConfigGood(a)
  BY <1>1 DEF ConfigGoodConfig
<1>3. PICK kept : kept = {Config!Kept(sent, existing)}
  OBVIOUS
<1>4. (\A p \in kept : ConfigGood(p)) /\ \A p, q \in kept : p = q
  BY <1>2, <1>3, ConfigKeptIsGood
<1>5. d = ConfigWithProfile(c, name, kept)
  BY <1>1, <1>3 DEF Config!SaveProfile, ConfigWithProfile
<1> QED BY <1>4, <1>5, ConfigOtherProfile

LEMMA ConfigApplyProfileIs ==
  ASSUME NEW c, ConfigGoodConfig(c), NEW name \in Names, c.profiles[name] # {}, NEW d, d = Config!ApplyProfile(c, name)
  PROVE  ConfigGoodConfig(d) /\ d.llm \in c.profiles[name] /\ d.profiles = c.profiles /\ d = ConfigAdding(c, "apply", d)
<1>1. PICK a : a = CHOOSE p \in c.profiles[name] : TRUE
  OBVIOUS
<1>2. a \in c.profiles[name]
  BY <1>1
<1>3. ConfigGood(a)
  BY <1>2 DEF ConfigGoodConfig
<1>4. d = [c EXCEPT !.llm = a]
  BY <1>1 DEF Config!ApplyProfile
<1> QED BY <1>2, <1>3, <1>4, ConfigOtherLlm

LEMMA ConfigDeleteProfileIs ==
  ASSUME NEW c, ConfigGoodConfig(c), NEW name \in Names, NEW d, d = Config!DeleteProfile(c, name)
  PROVE  /\ ConfigGoodConfig(d) /\ d.llm = c.llm /\ d = ConfigAdding(c, "profiles", d)
         /\ d.profiles[name] = {} /\ \A n \in Names : n # name => d.profiles[n] = c.profiles[n]
<1>1. PICK kept : kept = {}
  OBVIOUS
<1>2. (\A p \in kept : ConfigGood(p)) /\ \A p, q \in kept : p = q
  BY <1>1
<1>3. d = ConfigWithProfile(c, name, kept)
  BY <1>1 DEF Config!DeleteProfile, ConfigWithProfile
<1>4. /\ ConfigGoodConfig(d) /\ d.llm = c.llm /\ d = ConfigAdding(c, "profiles", d)
      /\ \A n \in Names : n = name => d.profiles[n] = kept
      /\ \A n \in Names : n # name => d.profiles[n] = c.profiles[n]
  BY <1>2, <1>3, ConfigOtherProfile
<1> QED BY <1>1, <1>4

LEMMA ConfigSavePoolIs ==
  ASSUME NEW c, ConfigGoodConfig(c), NEW id \in Ids, NEW sent, \A s \in sent : ConfigIsAccount(s), NEW d, d = Config!SavePool(c, id, sent)
  PROVE  ConfigGoodConfig(d) /\ d = ConfigAdding(c, "pool", d) /\ d.llm = c.llm /\ d.profiles = c.profiles
<1>1. PICK kept : kept = {Config!Kept(s, c.pool[id]) : s \in sent}
  OBVIOUS
<1>2. \A a \in kept : ConfigGood(a)
  BY <1>1, ConfigKeptIsGood DEF ConfigGoodConfig
<1>3. d = [c EXCEPT !.pool[id] = kept]
  BY <1>1 DEF Config!SavePool
<1> QED BY <1>2, <1>3, ConfigOtherPool

LEMMA ConfigSetProviderIs ==
  ASSUME NEW c, ConfigGoodConfig(c), NEW p, NEW option, option # "mask", NEW d, d = Config!SetProvider(c, p, option)
  PROVE  ConfigGoodConfig(d) /\ d = ConfigAdding(c, "llm", d)
<1>1. PICK a : a = CASE option = "gateway" -> Config!Account(p, "none", FALSE)
                     [] option \in Keys -> Config!Account(p, option, TRUE)
                     [] OTHER -> IF c.llm.provider = p THEN c.llm ELSE Config!Account(p, "none", TRUE)
  OBVIOUS
<1>2. ConfigGood(Config!Account(p, "none", FALSE)) /\ ConfigGood(Config!Account(p, "none", TRUE)) /\ ConfigGood(Config!Account(p, option, TRUE)) /\ ConfigGood(c.llm)
  BY ConfigNewAccount DEF ConfigGood, ConfigIsAccount, Config!Account, ConfigGoodConfig
<1>3. ConfigGood(a)
  BY <1>1, <1>2
<1>4. d = [c EXCEPT !.llm = a]
  BY <1>1 DEF Config!SetProvider
<1> QED BY <1>3, <1>4, ConfigOtherLlm

-----------------------------------------------------------------------------
LEMMA ConfigInitHolds == ASSUME ConfigKeysApart PROVE Config!Init => ConfigIInv
<1> SUFFICES ASSUME Config!Init PROVE ConfigIInv
  OBVIOUS
<1>1. PICK k \in {"none"} \cup Keys : file = [whole |-> TRUE, cfg |-> [Config!Defaults EXCEPT !.llm.key = k, !.mcp = TRUE]]
  BY DEF Config!Init
<1>2. PICK c : c = ConfigConfigOf(Config!Account(First, "none", TRUE), [n \in Names |-> {}], [e \in Ids |-> {}], FALSE)
  OBVIOUS
<1>3. PICK d : d = [c EXCEPT !.llm.key = k, !.mcp = TRUE]
  OBVIOUS
<1>4. d = ConfigConfigOf(Config!Account(First, k, TRUE), [n \in Names |-> {}], [e \in Ids |-> {}], TRUE)
  BY <1>2, <1>3 DEF ConfigConfigOf, Config!Account
<1>5. Config!Defaults = c
  BY <1>2 DEF Config!Defaults, ConfigConfigOf
<1>6. file.cfg = d /\ file.whole /\ file = [whole |-> file.whole, cfg |-> file.cfg]
  BY <1>1, <1>3, <1>5
<1>7. ConfigGoodConfig(file.cfg)
  BY <1>4, <1>6, ConfigNewAccount, ConfigFreshConfig DEF ConfigKeysApart
<1>8. ConfigIsReq(Config!Idle) /\ Config!Idle.next = Config!Defaults /\ Config!Idle.step = "idle" /\ ~Config!Idle.raced
  BY DEF Config!Idle, ConfigIsReq
<1>9. ConfigIsDialog(Config!Fresh) /\ ~Config!Fresh.asShown
  <2>1. ConfigIsAccount(Config!Account(First, "blank", TRUE))
    BY ConfigMadeAccount
  <2> QED BY <2>1 DEF Config!Fresh, ConfigIsDialog
<1>10. ConfigTyped
  BY <1>6, <1>7, <1>8, <1>9, ConfigGoodDefaults DEF Config!Init, ConfigTyped
<1>11. ConfigInTurn
  BY <1>6, <1>8 DEF Config!Init, ConfigInTurn
<1>12. ConfigUntouched /\ Config!SavesAddUp
  BY <1>9 DEF Config!Init, ConfigUntouched, Config!SavesAddUp
<1> QED BY <1>10, <1>11, <1>12 DEF ConfigIInv

(* A request is sent, with what it will write and what the dialog then shows.*)
LEMMA ConfigSubmits ==
  ASSUME ConfigIInv, NEW w \in Config!Writers, NEW op, NEW next, NEW asShown, Config!Submit(w, op, next, asShown),
         ConfigGoodConfig(next), next = ConfigAdding(Config!Read, op, next),
         asShown /\ op = "llm" /\ ~spoiled' => next = Config!Read,
         ConfigIsDialog(dialog'),
         dialog'.asShown /\ ~spoiled' =>
           /\ w = "dialog" /\ dialog.asShown
           /\ ConfigShows(dialog, Config!Read) => ConfigShows(dialog', next)
  PROVE  ConfigIInv'
<1>1. PICK r : r = [step |-> "read", op |-> op, next |-> next, raced |-> FALSE, asShown |-> asShown]
  OBVIOUS
<1>2. /\ ConfigIsReq(r) /\ r.step = "read" /\ r.op = op /\ r.next = next /\ ~r.raced
      /\ r.asShown = asShown
  BY <1>1 DEF ConfigIsReq
<1>3. req' = [req EXCEPT ![w] = r]
  BY <1>1 DEF Config!Submit
<1>4. req' = [v \in Config!Writers |-> req'[v]] /\ req'[w] = r /\ \A v \in Config!Writers : v # w => req'[v] = req[v]
  BY <1>3 DEF ConfigIInv, ConfigTyped
<1>5. ConfigTyped'
  <2>1. file' = file
    BY DEF Config!Submit
  <2>2. \A v \in Config!Writers : ConfigIsReq(req'[v]) /\ ConfigGoodConfig(req'[v].next)
    BY <1>2, <1>4 DEF ConfigIInv, ConfigTyped
  <2> QED BY <1>4, <2>1, <2>2 DEF ConfigIInv, ConfigTyped
<1>6. ~spoiled' => ~spoiled /\ (\A v \in Config!Writers : req[v].step = "idle") /\ file.whole /\ Config!Read = expected
  BY DEF Config!Submit, ConfigIInv, ConfigInTurn, Config!Read
<1>7. ConfigInTurn'
  <2> SUFFICES ASSUME ~spoiled' PROVE ConfigInTurn'
    BY DEF ConfigInTurn
  <2>1. \A v \in Config!Writers : v # w => req'[v].step = "idle"
    BY <1>4, <1>6
  <2>2. /\ \A v \in Config!Writers : req'[v].step # "emptied"
        /\ file' = file /\ expected' = expected /\ file'.cfg = expected
    BY <1>2, <1>4, <1>6, <2>1 DEF Config!Submit, ConfigIInv, ConfigInTurn
  <2>3. \A v \in Config!Writers : ~req'[v].raced
    BY <1>2, <1>4, <1>6 DEF ConfigIInv, ConfigInTurn
  <2>4. req'[w].next = ConfigAdding(expected, req'[w].op, req'[w].next)
    BY <1>2, <1>4, <1>6
  <2>5. req'[w].asShown /\ req'[w].op = "llm" => req'[w].next = expected
    BY <1>2, <1>4, <1>6
  <2> QED BY <1>6, <2>1, <2>2, <2>3, <2>4, <2>5 DEF ConfigInTurn
<1>8. ConfigUntouched'
  <2> SUFFICES ASSUME dialog'.asShown, ~spoiled' PROVE (req["other"].step = "idle")' /\ ConfigShows(dialog', ConfigCurrent')
    BY DEF ConfigUntouched
  <2>1. w = "dialog" /\ "other" \in Config!Writers /\ "dialog" \in Config!Writers
    BY DEF Config!Writers
  <2>2. ConfigCurrent' = next
    BY <1>2, <1>4, <2>1 DEF ConfigCurrent
  <2>3. ConfigCurrent = Config!Read /\ ConfigShows(dialog, Config!Read)
    BY <1>6, <2>1 DEF ConfigCurrent, ConfigIInv, ConfigUntouched
  <2>4. (req["other"].step = "idle")'
    BY <1>4, <1>6, <2>1
  <2> QED BY <2>2, <2>3, <2>4
<1>9. Config!SavesAddUp'
  BY <1>6 DEF Config!Submit, ConfigIInv, Config!SavesAddUp
<1> QED BY <1>5, <1>7, <1>8, <1>9 DEF ConfigIInv

(* The dialog stays as it is, or no longer shows what is saved.              *)
LEMMA ConfigSaveDraftKeeps == ASSUME ConfigIInv, Config!SaveDraft PROVE ConfigIInv'
<1>1. PICK next : next = Config!SaveLlm(Config!Read, dialog.draft)
  OBVIOUS
<1>2. /\ ConfigGoodConfig(next) /\ next.llm = Config!Kept(dialog.draft, {Config!Read.llm}) /\ next.profiles = Config!Read.profiles
      /\ next = ConfigAdding(Config!Read, "llm", next)
  BY <1>1, ConfigReadIsGood, ConfigSaveLlmIs DEF ConfigIInv, ConfigTyped, ConfigIsDialog
<1>3. Config!Submit("dialog", "llm", next, dialog.asShown) /\ dialog' = dialog
  BY <1>1 DEF Config!SaveDraft
<1>4. dialog.asShown /\ ~spoiled' => next = Config!Read
  <2> SUFFICES ASSUME dialog.asShown, ~spoiled' PROVE next = Config!Read
    OBVIOUS
  <2>1. ~spoiled /\ (\A v \in Config!Writers : req[v].step = "idle") /\ Config!Read = expected
    BY <1>3 DEF Config!Submit, ConfigIInv, ConfigInTurn, Config!Read
  <2>2. dialog.draft = Config!KeyField(Config!Read.llm)
    BY <2>1 DEF ConfigIInv, ConfigUntouched, ConfigShows, ConfigCurrent, Config!Writers
  <2>3. next.llm = Config!Read.llm
    BY <1>2, <2>2, ConfigShownIsKept, ConfigReadIsGood DEF ConfigIInv, ConfigGoodConfig
  <2>4. PICK c : c = Config!Read
    OBVIOUS
  <2>5. PICK l, p, o, m : c = ConfigConfigOf(l, p, o, m) /\ c.llm = l
    BY <2>4, ConfigParts, ConfigReadIsGood DEF ConfigIInv, ConfigGoodConfig
  <2>6. PICK a : a = next.llm
    OBVIOUS
  <2>7. next = [c EXCEPT !.llm = a]
    BY <1>2, <2>4, <2>6 DEF ConfigAdding
  <2>8. a = l
    BY <2>3, <2>4, <2>5, <2>6
  <2>9. next = c
    BY <2>5, <2>7, <2>8 DEF ConfigConfigOf
  <2> QED BY <2>4, <2>9
<1>5. ConfigShows(dialog, Config!Read) => ConfigShows(dialog, next)
  BY <1>2, <1>4, ConfigShownIsKept, ConfigReadIsGood DEF ConfigShows, ConfigIInv, ConfigGoodConfig
<1> QED BY <1>2, <1>3, <1>4, <1>5, ConfigSubmits DEF Config!Writers, ConfigIInv, ConfigTyped

LEMMA ConfigSaveDraftAsKeeps ==
  ASSUME ConfigIInv, NEW name \in Names, Config!SaveDraftAs(name)
  PROVE  ConfigIInv'
<1>1. PICK sent : sent = [dialog.draft EXCEPT !.key = IF ~dialog.draft.stored \/ @ = "blank" THEN "none" ELSE @]
  OBVIOUS
<1>2. ConfigIsAccount(sent)
  BY <1>1, ConfigRekeyed DEF ConfigIInv, ConfigTyped, ConfigIsDialog
<1>3. PICK next : next = Config!SaveProfile(Config!Read, name, sent)
  OBVIOUS
<1>4. /\ ConfigGoodConfig(next) /\ next.llm = Config!Read.llm /\ next = ConfigAdding(Config!Read, "profiles", next)
      /\ \A n \in Names : n # name => next.profiles[n] = Config!Read.profiles[n]
  BY <1>2, <1>3, ConfigReadIsGood, ConfigSaveProfileIs DEF ConfigIInv
<1>5. /\ Config!Submit("dialog", "profiles", next, FALSE)
      /\ dialog' = [dialog EXCEPT !.profiles[name] = {sent}, !.seen = @ \ {name}]
  BY <1>1, <1>3 DEF Config!SaveDraftAs
<1>6. /\ dialog'.draft = dialog.draft /\ dialog'.seen = dialog.seen \ {name} /\ dialog'.asShown = dialog.asShown
      /\ \A n \in Names : dialog'.profiles[n] = IF n = name THEN {sent} ELSE dialog.profiles[n]
      /\ dialog'.profiles = [n \in Names |-> dialog'.profiles[n]]
      /\ dialog' = [draft |-> dialog'.draft, profiles |-> dialog'.profiles, seen |-> dialog'.seen,
                    asShown |-> dialog'.asShown]
  BY <1>5 DEF ConfigIInv, ConfigTyped, ConfigIsDialog
<1>7. ConfigIsDialog(dialog')
  BY <1>2, <1>6 DEF ConfigIsDialog, ConfigIInv, ConfigTyped
<1>8. ConfigShows(dialog, Config!Read) => ConfigShows(dialog', next)
  BY <1>4, <1>6 DEF ConfigShows
<1> QED BY <1>4, <1>5, <1>6, <1>7, <1>8, ConfigSubmits DEF Config!Writers

LEMMA ConfigApplyKeeps ==
  ASSUME ConfigIInv, NEW name \in Names, Config!Apply(name)
  PROVE  ConfigIInv'
<1>1. PICK next : next = Config!ApplyProfile(Config!Read, name)
  OBVIOUS
<1>2. Config!Read.profiles[name] # {} /\ Config!Submit("dialog", "apply", next, FALSE)
  BY <1>1 DEF Config!Apply
<1>3. ConfigGoodConfig(next) /\ next.llm \in Config!Read.profiles[name] /\ next.profiles = Config!Read.profiles
        /\ next = ConfigAdding(Config!Read, "apply", next)
  BY <1>1, <1>2, ConfigReadIsGood, ConfigApplyProfileIs DEF ConfigIInv
<1>4. CASE dialog.profiles[name] = {}
  <2>1. dialog' = dialog
    BY <1>4 DEF Config!Apply
  <2>2. ~ConfigShows(dialog, Config!Read)
    BY <1>2, <1>4 DEF ConfigShows
  <2>3. dialog'.asShown /\ ~spoiled' => FALSE
    BY <1>2, <2>1, <2>2 DEF Config!Submit, ConfigIInv, ConfigInTurn, ConfigUntouched,
       ConfigCurrent, Config!Read, Config!Writers
  <2> QED BY <1>2, <1>3, <2>1, <2>3, ConfigSubmits DEF Config!Writers, ConfigIInv, ConfigTyped
<1>5. CASE dialog.profiles[name] # {}
  <2>1. PICK p \in dialog.profiles[name] :
          dialog' = [dialog EXCEPT !.draft = [p EXCEPT !.key = IF @ = "none" THEN "blank" ELSE @],
                                   !.asShown = dialog.asShown /\ name \in dialog.seen]
    BY <1>5 DEF Config!Apply
  <2>2. PICK d : d = [p EXCEPT !.key = IF @ = "none" THEN "blank" ELSE @]
    OBVIOUS
  <2>3. ConfigIsAccount(d)
    BY <2>2, ConfigRekeyed DEF ConfigIInv, ConfigTyped, ConfigIsDialog
  <2>4. /\ dialog'.draft = d /\ dialog'.profiles = dialog.profiles /\ dialog'.seen = dialog.seen
        /\ dialog'.asShown = (dialog.asShown /\ name \in dialog.seen)
        /\ dialog' = [draft |-> dialog'.draft, profiles |-> dialog'.profiles, seen |-> dialog'.seen,
                    asShown |-> dialog'.asShown]
    BY <2>1, <2>2 DEF ConfigIInv, ConfigTyped, ConfigIsDialog
  <2>5. ConfigIsDialog(dialog')
    BY <2>3, <2>4 DEF ConfigIsDialog, ConfigIInv, ConfigTyped
  <2>6. ASSUME ConfigShows(dialog, Config!Read), dialog'.asShown PROVE ConfigShows(dialog', next)
    <3>1. dialog.profiles[name] = {Config!Masked(a) : a \in Config!Read.profiles[name]}
      BY <2>4, <2>6 DEF ConfigShows
    <3>2. PICK a \in Config!Read.profiles[name] : p = Config!Masked(a)
      BY <3>1
    <3>3. a = next.llm /\ ConfigIsAccount(a)
      BY <1>3, ConfigReadIsGood DEF ConfigIInv, ConfigGoodConfig, ConfigGood
    <3>4. d = Config!KeyField(next.llm)
      BY <2>2, <3>2, <3>3, ConfigApplyShows
    <3> QED BY <1>3, <2>4, <2>6, <3>4 DEF ConfigShows
  <2> QED BY <1>2, <1>3, <2>4, <2>5, <2>6, ConfigSubmits DEF Config!Writers
<1> QED BY <1>4, <1>5

LEMMA ConfigDeleteKeeps ==
  ASSUME ConfigIInv, NEW name \in Names, Config!Delete(name)
  PROVE  ConfigIInv'
<1>1. PICK next : next = Config!DeleteProfile(Config!Read, name)
  OBVIOUS
<1>2. /\ Config!Submit("dialog", "profiles", next, FALSE)
      /\ dialog' = [dialog EXCEPT !.profiles[name] = {}]
  BY <1>1 DEF Config!Delete
<1>3. /\ ConfigGoodConfig(next) /\ next.llm = Config!Read.llm /\ next = ConfigAdding(Config!Read, "profiles", next)
      /\ next.profiles[name] = {} /\ \A n \in Names : n # name => next.profiles[n] = Config!Read.profiles[n]
  BY <1>1, ConfigReadIsGood, ConfigDeleteProfileIs DEF ConfigIInv
<1>4. /\ dialog'.draft = dialog.draft /\ dialog'.seen = dialog.seen /\ dialog'.asShown = dialog.asShown
      /\ \A n \in Names : dialog'.profiles[n] = IF n = name THEN {} ELSE dialog.profiles[n]
      /\ dialog'.profiles = [n \in Names |-> dialog'.profiles[n]]
      /\ dialog' = [draft |-> dialog'.draft, profiles |-> dialog'.profiles, seen |-> dialog'.seen,
                    asShown |-> dialog'.asShown]
  BY <1>2 DEF ConfigIInv, ConfigTyped, ConfigIsDialog
<1>5. ConfigIsDialog(dialog')
  BY <1>4 DEF ConfigIsDialog, ConfigIInv, ConfigTyped
<1>6. ConfigShows(dialog, Config!Read) => ConfigShows(dialog', next)
  BY <1>3, <1>4 DEF ConfigShows
<1> QED BY <1>2, <1>3, <1>4, <1>5, <1>6, ConfigSubmits DEF Config!Writers

LEMMA ConfigSavePoolTabKeeps ==
  ASSUME ConfigIInv, NEW id \in Ids, NEW sent, \A s \in sent : ConfigIsAccount(s), Config!SavePoolTab(id, sent) PROVE ConfigIInv'
<1>1. PICK next : next = Config!SavePool(Config!Read, id, sent)
  OBVIOUS
<1>2. /\ ConfigGoodConfig(next) /\ next = ConfigAdding(Config!Read, "pool", next) /\ next.llm = Config!Read.llm
      /\ next.profiles = Config!Read.profiles
  BY <1>1, ConfigReadIsGood, ConfigSavePoolIs DEF ConfigIInv
<1>3. Config!Submit("dialog", "pool", next, FALSE) /\ dialog' = dialog
  BY <1>1 DEF Config!SavePoolTab
<1>4. ConfigShows(dialog, Config!Read) => ConfigShows(dialog, next)
  BY <1>2 DEF ConfigShows
<1> QED BY <1>2, <1>3, <1>4, ConfigSubmits DEF Config!Writers, ConfigIInv, ConfigTyped

LEMMA ConfigLooksAway ==
  ASSUME ConfigTyped, Config!Behind
  PROVE  ConfigIsDialog(dialog') /\ ~dialog'.asShown
BY DEF Config!Behind, ConfigTyped, ConfigIsDialog

LEMMA ConfigCommandKeeps ==
  ASSUME ConfigKeysApart, ConfigIInv, NEW p, NEW option \in {"none", "gateway"} \cup Keys, Config!Command(p, option) PROVE ConfigIInv'
<1>1. PICK next : next = Config!SetProvider(Config!Read, p, option)
  OBVIOUS
<1>2. ConfigGoodConfig(next) /\ next = ConfigAdding(Config!Read, "llm", next)
  BY <1>1, ConfigReadIsGood, ConfigSetProviderIs DEF ConfigIInv, ConfigKeysApart
<1> QED BY <1>1, <1>2, ConfigLooksAway, ConfigSubmits DEF Config!Command, Config!Writers, ConfigIInv

LEMMA ConfigFirstRunKeeps ==
  ASSUME ConfigKeysApart, ConfigIInv, NEW p, NEW key \in {"none"} \cup Keys, Config!FirstRun(p, key) PROVE ConfigIInv'
<1>1. PICK next : next = Config!SetUp(p, key)
  OBVIOUS
<1>2. ConfigGoodConfig(next) /\ next = ConfigAdding(Config!Read, "all", next)
  BY <1>1, ConfigSetUpIsGood DEF ConfigKeysApart, ConfigAdding
<1>3. PICK shown : shown = ~Config!Read.llm.stored
  OBVIOUS
<1>4. Config!Submit("other", "all", next, shown)
  BY <1>1, <1>3 DEF Config!FirstRun
<1> QED BY <1>2, <1>4, ConfigLooksAway, ConfigSubmits DEF Config!FirstRun, Config!Writers,
           ConfigIInv

-----------------------------------------------------------------------------
LEMMA ConfigOpenKeeps == ASSUME ConfigIInv, NEW answered, Config!Open(answered) PROVE ConfigIInv'
<1>1. UNCHANGED <<file, req, expected, spoiled>>
  BY DEF Config!Open
<1>2. ConfigInTurn' /\ Config!SavesAddUp'
  BY <1>1 DEF ConfigIInv, ConfigInTurn, Config!SavesAddUp
<1>3. CASE ~answered
  <2>1. dialog' = Config!Fresh
    BY <1>3 DEF Config!Open
  <2>2. ConfigIsAccount(Config!Account(First, "blank", TRUE))
    BY ConfigMadeAccount
  <2>3. ConfigIsDialog(dialog') /\ ~dialog'.asShown
    BY <2>1, <2>2 DEF Config!Fresh, ConfigIsDialog
  <2> QED BY <1>1, <1>2, <2>3 DEF ConfigIInv, ConfigTyped, ConfigUntouched
<1>4. CASE answered
  <2>1. /\ dialog'.draft = Config!KeyField(Config!Read.llm)
        /\ dialog'.profiles = [n \in Names |-> {Config!Masked(p) : p \in Config!Read.profiles[n]}]
        /\ dialog'.seen = Names /\ (dialog'.asShown <=> ~spoiled /\ req["other"].step = "idle")
        /\ dialog' = [draft |-> dialog'.draft, profiles |-> dialog'.profiles, seen |-> dialog'.seen,
                    asShown |-> dialog'.asShown]
    BY <1>4 DEF Config!Open
  <2>2. ConfigGoodConfig(Config!Read)
    BY ConfigReadIsGood DEF ConfigIInv
  <2>3. ConfigIsAccount(dialog'.draft)
    BY <2>1, <2>2, ConfigFieldIsAccount DEF ConfigGoodConfig, ConfigGood
  <2>4. \A n \in Names : dialog'.profiles[n] = {Config!Masked(p) : p \in Config!Read.profiles[n]}
    BY <2>1
  <2>5. ASSUME NEW n \in Names, NEW q \in dialog'.profiles[n] PROVE ConfigIsAccount(q)
    <3>1. PICK p \in Config!Read.profiles[n] : q = Config!Masked(p)
      BY <2>4
    <3> QED BY <2>2, <3>1, ConfigFieldIsAccount DEF ConfigGoodConfig, ConfigGood
  <2>6. ConfigIsDialog(dialog')
    BY <2>1, <2>3, <2>4, <2>5 DEF ConfigIsDialog
  <2>7. ConfigShows(dialog', Config!Read)
    BY <2>1, <2>4 DEF ConfigShows
  <2>8. ConfigUntouched'
    <3> SUFFICES ASSUME dialog'.asShown, ~spoiled' PROVE (req["other"].step = "idle")' /\ ConfigShows(dialog', ConfigCurrent')
      BY DEF ConfigUntouched
    <3>1. ConfigCurrent' = Config!Read
      BY <1>1, <2>1 DEF Config!Open, Config!DialogIdle, ConfigIInv, ConfigInTurn, ConfigCurrent,
         Config!Read, Config!Writers
    <3> QED BY <1>1, <2>1, <2>7, <3>1
  <2> QED BY <1>1, <1>2, <2>6, <2>8 DEF ConfigIInv, ConfigTyped
<1> QED BY <1>3, <1>4

LEMMA ConfigEditKeeps ==
  ASSUME ConfigIInv, NEW draft, ConfigIsAccount(draft), Config!Edit(draft)
  PROVE  ConfigIInv'
<1>1. UNCHANGED <<file, req, expected, spoiled>> /\ dialog' = [dialog EXCEPT !.draft = draft, !.asShown = FALSE]
  BY DEF Config!Edit
<1>2. ConfigIsDialog(dialog') /\ ~dialog'.asShown
  BY <1>1 DEF ConfigIInv, ConfigTyped, ConfigIsDialog
<1> QED BY <1>1, <1>2 DEF ConfigIInv, ConfigTyped, ConfigInTurn, ConfigUntouched, Config!SavesAddUp

LEMMA ConfigSelectKeeps ==
  ASSUME ConfigIInv PROVE /\ \A p : Config!SelectProvider(p) => ConfigIInv'
                          /\ \A stored \in BOOLEAN : Config!SelectSource(stored) => ConfigIInv'
                          /\ \A key : Config!TypeKey(key) => ConfigIInv'
<1>1. ConfigIsAccount(dialog.draft)
  BY DEF ConfigIInv, ConfigTyped, ConfigIsDialog
<1>2. ASSUME NEW p, Config!SelectProvider(p) PROVE ConfigIInv'
  BY <1>2, ConfigMadeAccount, ConfigEditKeeps DEF Config!SelectProvider
<1>3. ASSUME NEW stored \in BOOLEAN, Config!SelectSource(stored) PROVE ConfigIInv'
  <2>1. PICK a, k, s : dialog.draft = Config!Account(a, k, s)
    BY <1>1 DEF ConfigIsAccount
  <2>2. PICK x : x = dialog.draft
    OBVIOUS
  <2>3. x = Config!Account(a, k, s)
    BY <2>1, <2>2
  <2>4. PICK d : d = [x EXCEPT !.stored = stored, !.key = IF stored THEN @ ELSE "none"]
    OBVIOUS
  <2>5. d = Config!Account(a, IF stored THEN k ELSE "none", stored)
    BY <2>3, <2>4 DEF Config!Account
  <2> QED BY <1>3, <2>2, <2>4, <2>5, ConfigMadeAccount, ConfigEditKeeps DEF Config!SelectSource
<1>4. ASSUME NEW key, Config!TypeKey(key) PROVE ConfigIInv'
  <2>1. PICK d : d = [dialog.draft EXCEPT !.key = key]
    OBVIOUS
  <2> QED BY <1>1, <1>4, <2>1, ConfigRekeyed, ConfigEditKeeps DEF Config!TypeKey
<1> QED BY <1>2, <1>3, <1>4

LEMMA ConfigTruncateKeeps ==
  ASSUME ConfigIInv, NEW w \in Config!Writers, Config!Truncate(w)
  PROVE  ConfigIInv'
<1>1. PICK r : r = [req[w] EXCEPT !.step = "emptied"]
  OBVIOUS
<1>2. /\ ConfigIsReq(r) /\ r.step = "emptied" /\ r.op = req[w].op /\ r.next = req[w].next
      /\ r.raced = req[w].raced /\ r.asShown = req[w].asShown
  BY <1>1 DEF ConfigIInv, ConfigTyped, ConfigIsReq
<1>3. /\ req' = [v \in Config!Writers |-> req'[v]] /\ req'[w] = r /\ \A v \in Config!Writers : v # w => req'[v] = req[v]
      /\ req[w].step = "read" /\ UNCHANGED <<dialog, expected, spoiled>>
  BY <1>1 DEF Config!Truncate, ConfigIInv, ConfigTyped
<1>4. file' = [whole |-> FALSE, cfg |-> file.cfg]
  BY DEF Config!Truncate, ConfigIInv, ConfigTyped
<1>5. ~file'.whole /\ file'.cfg = file.cfg /\ file' = [whole |-> file'.whole, cfg |-> file'.cfg]
  BY <1>4
<1>6. ConfigTyped'
  BY <1>2, <1>3, <1>5 DEF ConfigIInv, ConfigTyped
<1>7. ConfigInTurn'
  <2> SUFFICES ASSUME ~spoiled PROVE ConfigInTurn'
    BY <1>3 DEF ConfigInTurn
  <2>1. \A v \in Config!Writers : v # w => req'[v].step = "idle"
    BY <1>3 DEF ConfigIInv, ConfigInTurn, ConfigTyped, ConfigIsReq
  <2> QED BY <1>2, <1>3, <1>5, <2>1 DEF ConfigIInv, ConfigInTurn
<1>8. ConfigUntouched'
  <2>1. ConfigCurrent' = ConfigCurrent /\ (req'["other"].step = "idle" <=> req["other"].step = "idle")
    BY <1>2, <1>3 DEF ConfigCurrent, Config!Writers
  <2> QED BY <1>3, <2>1 DEF ConfigIInv, ConfigUntouched
<1> QED BY <1>5, <1>6, <1>7, <1>8 DEF ConfigIInv, Config!SavesAddUp

LEMMA ConfigDieKeeps == ASSUME ConfigIInv, NEW w \in Config!Writers, Config!Die(w) PROVE ConfigIInv'
<1>1. req' = [v \in Config!Writers |-> IF v = w THEN Config!Idle ELSE req[v]] /\ spoiled' /\ UNCHANGED <<file, dialog>>
  BY DEF Config!Die, ConfigIInv, ConfigTyped
<1>2. ConfigIsReq(Config!Idle) /\ Config!Idle.next = Config!Defaults
  BY DEF Config!Idle, ConfigIsReq
<1>3. ConfigTyped'
  BY <1>1, <1>2, ConfigGoodDefaults DEF ConfigIInv, ConfigTyped
<1> QED BY <1>1, <1>3 DEF ConfigIInv, ConfigInTurn, ConfigUntouched, Config!SavesAddUp

LEMMA ConfigFillKeeps ==
  ASSUME ConfigIInv, NEW w \in Config!Writers, Config!Fill(w)
  PROVE  ConfigIInv'
<1>1. PICK n : n = req[w].next
  OBVIOUS
<1>2. /\ req' = [v \in Config!Writers |-> IF v = w THEN Config!Idle ELSE [req[v] EXCEPT !.raced = @ \/ req[v].step = "emptied"]]
      /\ req[w].step = "emptied" /\ UNCHANGED <<dialog, spoiled>>
  BY DEF Config!Fill
<1>3. PICK whole \in {TRUE} \cup {~req[w].raced} : file' = [whole |-> whole, cfg |-> n]
  BY <1>1 DEF Config!Fill
<1>4. file'.whole = whole /\ file'.cfg = n /\ file' = [whole |-> file'.whole, cfg |-> file'.cfg]
  BY <1>3
<1>5. ConfigGoodConfig(n)
  BY <1>1 DEF ConfigIInv, ConfigTyped
<1>6. ConfigIsReq(Config!Idle) /\ Config!Idle.next = Config!Defaults /\ Config!Idle.step = "idle" /\ ~Config!Idle.raced
  BY DEF Config!Idle, ConfigIsReq
<1>7. req'[w] = Config!Idle
  BY <1>2
<1>8. ASSUME NEW v \in Config!Writers, v # w
      PROVE  /\ ConfigIsReq(req'[v]) /\ req'[v].next = req[v].next /\ req'[v].step = req[v].step
  <2>1. req'[v] = [req[v] EXCEPT !.raced = @ \/ req[v].step = "emptied"]
    BY <1>2, <1>8
  <2>2. ConfigIsReq(req[v])
    BY DEF ConfigIInv, ConfigTyped
  <2> QED BY <2>1, <2>2 DEF ConfigIsReq
<1>9. ConfigTyped'
  <2>1. req' = [v \in Config!Writers |-> req'[v]]
    BY <1>2
  <2>2. \A v \in Config!Writers : ConfigIsReq(req'[v]) /\ ConfigGoodConfig(req'[v].next)
    BY <1>6, <1>7, <1>8, ConfigGoodDefaults DEF ConfigIInv, ConfigTyped
  <2> QED BY <1>2, <1>4, <1>5, <2>1, <2>2 DEF ConfigIInv, ConfigTyped
<1>10. ~spoiled => (\A v \in Config!Writers : req'[v].step = "idle" /\ ~req'[v].raced)
                   /\ file'.whole /\ file'.cfg = expected' /\ expected' = n
  <2> SUFFICES ASSUME ~spoiled PROVE (\A v \in Config!Writers : req'[v].step = "idle" /\ ~req'[v].raced)
                   /\ file'.whole /\ file'.cfg = expected' /\ expected' = n
    OBVIOUS
  <2>1. \A v \in Config!Writers : v # w => req[v].step = "idle" /\ ~req[v].raced
    BY <1>2 DEF ConfigIInv, ConfigInTurn
  <2>2. ASSUME NEW v \in Config!Writers, v # w PROVE req'[v].step = "idle" /\ ~req'[v].raced
    <3>1. req'[v] = [req[v] EXCEPT !.raced = @ \/ req[v].step = "emptied"]
      BY <1>2, <2>2
    <3>2. ConfigIsReq(req[v]) /\ req[v].step # "emptied"
      BY <2>1, <2>2 DEF ConfigIInv, ConfigTyped
    <3> QED BY <2>1, <2>2, <3>1, <3>2 DEF ConfigIsReq
  <2>3. whole
    BY <1>3 DEF ConfigIInv, ConfigInTurn
  <2>4. n = ConfigAdding(expected, req[w].op, n)
    BY <1>1, <1>2 DEF ConfigIInv, ConfigInTurn
  <2>5. expected' = ConfigAdding(expected, req[w].op, n)
    BY <1>1 DEF Config!Fill, ConfigAdding
  <2> QED BY <1>4, <1>6, <1>7, <2>2, <2>3, <2>4, <2>5
<1>11. ConfigInTurn' /\ Config!SavesAddUp'
  BY <1>2, <1>10 DEF ConfigInTurn, Config!SavesAddUp
<1>12. ConfigUntouched'
  <2> SUFFICES ASSUME dialog.asShown, ~spoiled
               PROVE  (req["other"].step = "idle")' /\ ConfigShows(dialog', ConfigCurrent')
    BY <1>2 DEF ConfigUntouched
  <2>1. req["other"].step = "idle" /\ ConfigShows(dialog, ConfigCurrent)
    BY DEF ConfigIInv, ConfigUntouched
  <2>2. w = "dialog"
    BY <1>2, <2>1 DEF Config!Writers
  <2>3. ConfigCurrent' = n /\ ConfigCurrent = n
    BY <1>1, <1>2, <1>7, <1>6, <1>10, <2>2 DEF ConfigCurrent
  <2> QED BY <1>2, <1>10, <2>1, <2>3 DEF Config!Writers
<1> QED BY <1>9, <1>11, <1>12 DEF ConfigIInv

LEMMA ConfigNextKeeps ==
  ASSUME ConfigKeysApart
  PROVE  ConfigIInv /\ [Config!Next]_Config!vars => ConfigIInv'
<1> SUFFICES ASSUME ConfigIInv, [Config!Next]_Config!vars PROVE ConfigIInv'
  OBVIOUS
<1>1. ASSUME NEW e \in Ids, NEW sent \in {{}} \cup {{a} : a \in Config!Shown}, Config!SavePoolTab(e, sent) PROVE ConfigIInv'
  <2>1. ASSUME NEW s \in Config!Shown PROVE ConfigIsAccount(s)
    <3>1. s = Config!Account(First, "none", FALSE) \/ \E key : s = Config!Account(First, key, TRUE)
      BY DEF Config!Shown
    <3> QED BY <3>1, ConfigMadeAccount
  <2>2. \A s \in sent : s \in Config!Shown
    OBVIOUS
  <2> QED BY <1>1, <2>1, <2>2, ConfigSavePoolTabKeeps
<1>2. CASE UNCHANGED Config!vars
  BY <1>2 DEF Config!vars, ConfigIInv, ConfigTyped, ConfigInTurn, ConfigUntouched, ConfigCurrent,
     Config!SavesAddUp
<1>3. ASSUME NEW w \in Config!Writers, Config!Truncate(w) \/ Config!Fill(w) \/ Config!Die(w) PROVE ConfigIInv'
  BY <1>3, ConfigTruncateKeeps, ConfigFillKeeps, ConfigDieKeeps
<1>4. ASSUME NEW b \in BOOLEAN, Config!Open(b) \/ Config!SelectSource(b) PROVE ConfigIInv'
  BY <1>4, ConfigOpenKeeps, ConfigSelectKeeps
<1>5. ASSUME NEW p \in Providers, Config!SelectProvider(p) PROVE ConfigIInv'
  BY <1>5, ConfigSelectKeeps
<1>6. ASSUME NEW k \in {"blank"} \cup Keys, Config!TypeKey(k) PROVE ConfigIInv'
  BY <1>6, ConfigSelectKeeps
<1>7. CASE Config!SaveDraft
  BY <1>7, ConfigSaveDraftKeeps
<1>8. ASSUME NEW n \in Names, Config!SaveDraftAs(n) \/ Config!Apply(n) \/ Config!Delete(n) PROVE ConfigIInv'
  BY <1>8, ConfigSaveDraftAsKeeps, ConfigApplyKeeps, ConfigDeleteKeeps
<1>9. ASSUME NEW p \in Providers, NEW o \in {"none", "gateway"} \cup Keys, Config!Command(p, o) PROVE ConfigIInv'
  BY <1>9, ConfigCommandKeeps
<1>10. ASSUME NEW p \in Providers, NEW k \in {"none"} \cup Keys, Config!FirstRun(p, k) PROVE ConfigIInv'
  BY <1>10, ConfigFirstRunKeeps
<1> QED BY <1>1, <1>2, <1>3, <1>4, <1>5, <1>6, <1>7, <1>8, <1>9, <1>10 DEF Config!Next

LEMMA ConfigGoodIsNoMask == ConfigIInv => Config!SavesAreExact
<1> SUFFICES ASSUME ConfigIInv, NEW a \in Config!Written PROVE a.key # "mask"
  BY DEF Config!SavesAreExact, Config!MaskIsNoKey, ConfigIInv
<1>1. ConfigGoodConfig(file.cfg)
  BY DEF ConfigIInv, ConfigTyped
<1>2. \/ a = file.cfg.llm
      \/ \E n \in Names : a \in file.cfg.profiles[n]
      \/ \E e \in Ids : a \in file.cfg.pool[e]
  <2>1. CASE a \in {file.cfg.llm}
    BY <2>1
  <2>2. CASE a \in UNION {file.cfg.profiles[n] : n \in Names}
    <3>1. PICK n \in Names : a \in file.cfg.profiles[n]
      BY <2>2
    <3> QED BY <3>1
  <2>3. CASE a \in UNION {file.cfg.pool[e] : e \in Ids}
    <3>1. PICK e \in Ids : a \in file.cfg.pool[e]
      BY <2>3
    <3> QED BY <3>1
  <2> QED BY <2>1, <2>2, <2>3 DEF Config!Written
<1> QED BY <1>1, <1>2 DEF ConfigGoodConfig, ConfigGood

(* The file of a request that has emptied it is unreadable until it is its   *)
(* turn to fill it, and an untouched dialog fills it with what was there.    *)
LEMMA ConfigSaveTakesNothingBack == ConfigIInv /\ [Config!Next]_Config!vars => Config!UntouchedSave
<1> SUFFICES ASSUME ConfigIInv, [Config!Next]_Config!vars, NEW w \in Config!Writers, req[w].step = "emptied", req[w].asShown,
                    req[w].op = "llm", ~spoiled, file'.whole
             PROVE  file'.cfg = expected
  BY DEF Config!UntouchedSave
<1>1. ~file.whole /\ req[w].next = expected /\ \A v \in Config!Writers : v # w => req[v].step = "idle"
  BY DEF ConfigIInv, ConfigInTurn
<1>2. ASSUME NEW v \in Config!Writers, Config!Fill(v) PROVE file'.cfg = expected
  <2>1. v = w
    BY <1>1, <1>2 DEF Config!Fill
  <2> QED BY <1>1, <1>2, <2>1 DEF Config!Fill
<1>3. ASSUME NEW v \in Config!Writers, Config!Truncate(v) PROVE FALSE
  BY <1>3 DEF Config!Truncate, ConfigIInv, ConfigTyped
<1>4. CASE file' = file
  BY <1>1, <1>4
<1> QED BY <1>2, <1>3, <1>4 DEF Config!Next, Config!vars, Config!Die, Config!Open,
           Config!SelectSource, Config!SelectProvider, Config!TypeKey, Config!Edit,
           Config!SaveDraft,
           Config!SaveDraftAs, Config!Apply, Config!Delete, Config!SavePoolTab, Config!Command, Config!FirstRun, Config!Submit

-----------------------------------------------------------------------------
(* The update of the command line (CliUpdate).                               *)

(* Releases are numbered.                                                    *)
CliHasVersions == MaxVersion \in Nat

CliSteps == {"idle", "npm", "download", "verify", "extract", "binary", "remove web", "web"}
CliArchives == {"good", "damaged", "without web"}
CliUpdates == [step : CliSteps, release : Nat, archive : CliArchives, wants : {"newer", "any"}]

CliReleases ==
  /\ published \subseteq Nat
  /\ installed \in [binary : Nat, web : Nat, npm : Nat]
  /\ faults \in Nat
CliProcesses == up \in [Updaters -> CliUpdates]
CliTypeOK == CliReleases /\ CliProcesses

(* What is installed was published, and so is what an update installs, which *)
(* is not damaged any more when it comes to the swaps.                       *)
CliGenuine ==
  /\ installed.binary \in published /\ installed.npm \in published
  /\ installed.web \in published \cup {Cli!None}
  /\ \A u \in Updaters : up[u].step # "idle" =>
       /\ up[u].release \in published
       /\ up[u].step \in {"extract", "binary", "remove web", "web"} => up[u].archive # "damaged"

(* As long as no two updates overlapped, at most one is under way.           *)
CliAlone ==
  ~overlapped =>
    \A u, v \in Updaters : up[u].step # "idle" /\ up[v].step # "idle" => u = v

(* The one that is under way goes forward, unless it was forced.             *)
CliAhead ==
  ~overlapped =>
    \A u \in Updaters : up[u].wants = "newer" =>
      /\ up[u].step = "npm" => up[u].release > installed.npm
      /\ up[u].step \in {"download", "verify", "extract", "binary"} => up[u].release > installed.binary

(* Between the two swaps the binary is the new one already.                  *)
CliPaired ==
  ~overlapped /\ faults = 0 =>
    /\ \A u \in Updaters :
         /\ up[u].step \in Cli!Swapping => installed.binary = up[u].release
         /\ up[u].step = "web" => installed.web = Cli!None
    /\ (\A u \in Updaters : up[u].step \notin Cli!Swapping) => installed.web = installed.binary

CliIInv == CliTypeOK /\ CliGenuine /\ CliAlone /\ CliAhead /\ CliPaired

-----------------------------------------------------------------------------
LEMMA CliInitHolds == Cli!Init => CliIInv
<1> SUFFICES ASSUME Cli!Init PROVE CliIInv
  OBVIOUS
<1>1. Cli!Idle \in CliUpdates
  BY DEF Cli!Idle, CliUpdates, CliSteps, CliArchives, Cli!None
<1>2. CliProcesses
  BY <1>1 DEF Cli!Init, CliProcesses
<1>3. CliReleases
  BY DEF Cli!Init, CliReleases
<1>4. \A u \in Updaters : up[u].step = "idle"
  BY DEF Cli!Init, Cli!Idle
<1>5. CliGenuine
  BY <1>4 DEF Cli!Init, CliGenuine
<1>6. CliAlone /\ CliAhead /\ CliPaired
  BY <1>4 DEF Cli!Init, CliAlone, CliAhead, CliPaired, Cli!Swapping
<1> QED BY <1>2, <1>3, <1>5, <1>6 DEF CliIInv, CliTypeOK

-----------------------------------------------------------------------------
(* What the steps do, update by update.                                      *)

CliOthers(u) == \A v \in Updaters \ {u} : up'[v] = up[v]
CliGoal(u) == up'[u].release = up[u].release /\ up'[u].wants = up[u].wants
CliParts == installed'.binary = installed.binary /\ installed'.web = installed.web /\ installed'.npm = installed.npm

(* An update begins; what it wants is ahead of what it found.                *)
CliBegan(u) ==
  /\ up[u].step = "idle" /\ up'[u].release \in published
  /\ \/ up'[u].step = "npm" /\ (up'[u].wants = "newer" => up'[u].release > installed.npm)
     \/ up'[u].step = "download" /\ (up'[u].wants = "newer" => up'[u].release > installed.binary)
  /\ overlapped' <=> overlapped \/ \E v \in Updaters \ {u} : up[v].step # "idle"
  /\ published' = published /\ faults' = faults /\ CliParts

(* It goes on without touching what is installed.                            *)
CliWentOn(u) ==
  /\ \/ up[u].step = "download" /\ up'[u].step = "verify"
     \/ up[u].step = "verify" /\ up'[u].step = "extract" /\ up[u].archive # "damaged"
     \/ up[u].step = "extract" /\ up'[u].step = "binary"
  /\ up[u].step # "download" => up'[u].archive = up[u].archive
  /\ CliGoal(u) /\ (overlapped' <=> overlapped) /\ published' = published /\ faults' = faults /\ CliParts

(* It swaps the binary, or takes the old web/ away.                          *)
CliSwapped(u) ==
  /\ \/ /\ up[u].step = "binary" /\ up'[u].step = "remove web"
        /\ installed'.binary = (IF up[u].archive = "damaged" THEN Cli!None ELSE up[u].release)
        /\ installed'.web = installed.web
     \/ /\ up[u].step = "remove web" /\ up'[u].step = "web"
        /\ installed'.binary = installed.binary /\ installed'.web = Cli!None
  /\ installed'.npm = installed.npm /\ up'[u].archive = up[u].archive
  /\ CliGoal(u) /\ (overlapped' <=> overlapped) /\ published' = published /\ faults' = faults

(* It ends: after its last write, or before any, or by a failure.            *)
CliEnded(u) ==
  /\ up[u].step # "idle" /\ up'[u].step = "idle"
  /\ (overlapped' <=> overlapped) /\ published' = published /\ (faults' = 0 => faults = 0)
  /\ \/ CliParts /\ (faults' = 0 => up[u].step \notin Cli!Swapping)
     \/ /\ up[u].step = "web" /\ installed'.binary = installed.binary /\ installed'.npm = installed.npm
        /\ installed'.web = (IF installed.web # Cli!None THEN installed.web
                             ELSE IF up[u].archive = "damaged" THEN Cli!None ELSE up[u].release)
     \/ /\ up[u].step = "npm" /\ installed'.binary = installed.binary /\ installed'.web = installed.web
        /\ installed'.npm = up[u].release

CliQuiet ==
  /\ \A v \in Updaters : up'[v] = up[v]
  /\ (overlapped' <=> overlapped) /\ published \subseteq published' /\ faults' = faults /\ CliParts

CliHappens ==
  \/ CliQuiet
  \/ \E u \in Updaters : CliOthers(u) /\ (CliBegan(u) \/ CliWentOn(u) \/ CliSwapped(u) \/ CliEnded(u))

(* The processes' records, before and after one of them changed.             *)
LEMMA CliProcessEnds ==
  ASSUME CliProcesses, NEW u \in Updaters, Cli!Ends(u)
  PROVE  CliProcesses' /\ CliOthers(u) /\ up'[u].step = "idle"
<1>1. Cli!Idle \in CliUpdates /\ Cli!Idle.step = "idle"
  BY DEF Cli!Idle, CliUpdates, CliSteps, CliArchives, Cli!None
<1> QED BY <1>1 DEF CliProcesses, Cli!Ends, CliOthers

LEMMA CliProcessGoes ==
  ASSUME CliProcesses, NEW u \in Updaters, NEW step \in CliSteps, Cli!Goes(u, step)
  PROVE  CliProcesses' /\ CliOthers(u) /\ CliGoal(u) /\ up'[u].step = step /\ up'[u].archive = up[u].archive
BY DEF CliProcesses, CliUpdates, Cli!Goes, CliOthers, CliGoal

LEMMA CliProcessFetches ==
  ASSUME CliProcesses, NEW u \in Updaters, NEW archive \in CliArchives,
         up' = [up EXCEPT ![u].step = "verify", ![u].archive = archive]
  PROVE  CliProcesses' /\ CliOthers(u) /\ CliGoal(u) /\ up'[u].step = "verify"
BY DEF CliProcesses, CliUpdates, CliSteps, CliOthers, CliGoal

LEMMA CliFields ==
  ASSUME CliTypeOK, NEW u \in Updaters
  PROVE  /\ up[u].step \in CliSteps /\ up[u].release \in Nat /\ up[u].wants \in {"newer", "any"}
         /\ installed.binary \in Nat /\ installed.web \in Nat /\ installed.npm \in Nat
BY DEF CliTypeOK, CliProcesses, CliReleases, CliUpdates

LEMMA CliStepsHappen ==
  ASSUME CliHasVersions, CliTypeOK, [Cli!Next]_Cli!vars
  PROVE  CliTypeOK' /\ CliHappens
<1>1. ASSUME NEW v \in Cli!Versions, Cli!Publish(v) PROVE CliTypeOK' /\ CliHappens
  <2>1. v \in Nat
    BY <1>1 DEF Cli!Versions, CliHasVersions
  <2>2. CliReleases' /\ published \subseteq published'
    BY <1>1, <2>1 DEF Cli!Publish, CliTypeOK, CliReleases
  <2>3. CliProcesses' /\ CliQuiet
    BY <1>1, <2>2 DEF Cli!Publish, CliTypeOK, CliProcesses, CliQuiet, CliParts
  <2> QED BY <2>2, <2>3 DEF CliHappens, CliTypeOK
<1>2. ASSUME NEW u \in Updaters, NEW method \in {"binary", "npm"}, NEW release \in published,
             NEW prerelease \in BOOLEAN, NEW wants \in {"newer", "any"}, NEW goes \in BOOLEAN,
             Cli!Start(u, method, release, prerelease, wants, goes)
      PROVE  CliTypeOK' /\ CliHappens
  <2>1. CliReleases' /\ CliParts /\ UNCHANGED <<published, faults>>
    BY <1>2 DEF Cli!Start, CliTypeOK, CliReleases, CliParts
  <2> DEFINE first == IF method = "npm" THEN "npm" ELSE "download"
             new == [Cli!Idle EXCEPT !.step = first, !.release = release, !.wants = wants]
  <2>2. release \in Nat
    BY <1>2 DEF CliTypeOK, CliReleases
  <2>3. new \in CliUpdates /\ new.step = first /\ new.release = release /\ new.wants = wants
    BY <2>2 DEF Cli!Idle, CliUpdates, CliSteps, CliArchives
  <2>4. up' = [up EXCEPT ![u] = new]
    BY <1>2 DEF Cli!Start
  <2> HIDE DEF new
  <2>5. CliProcesses' /\ CliOthers(u) /\ up'[u] = new
    BY <2>3, <2>4 DEF CliTypeOK, CliProcesses, CliOthers
  <2>6. /\ up[u].step = "idle"
        /\ wants = "newer" => release > (IF method = "npm" THEN installed.npm ELSE installed.binary)
        /\ overlapped' <=> overlapped \/ \E v \in Updaters \ {u} : up[v].step # "idle"
    BY <1>2 DEF Cli!Start
  <2>7. CliBegan(u)
    BY <2>1, <2>3, <2>5, <2>6 DEF CliBegan
  <2> QED BY <2>1, <2>5, <2>7 DEF CliHappens, CliTypeOK
<1>3. ASSUME NEW u \in Updaters, NEW archive \in CliArchives, Cli!Download(u, archive) PROVE CliTypeOK' /\ CliHappens
  <2>1. CliReleases' /\ CliParts /\ UNCHANGED <<published, faults, overlapped>>
    BY <1>3 DEF Cli!Download, CliTypeOK, CliReleases, CliParts
  <2>2. CASE up' = [up EXCEPT ![u].step = "verify", ![u].archive = archive]
    <3>2. CliProcesses' /\ CliOthers(u) /\ CliGoal(u) /\ up'[u].step = "verify"
      BY <2>2, CliProcessFetches DEF CliTypeOK, CliSteps
    <3>3. up[u].step = "download"
      BY <1>3, <2>2 DEF Cli!Download
    <3>4. CliWentOn(u)
      BY <2>1, <3>2, <3>3 DEF CliWentOn, Cli!Swapping
    <3> QED BY <2>1, <3>2, <3>4 DEF CliHappens, CliTypeOK
  <2>3. CASE Cli!Ends(u)
    <3>2. CliProcesses' /\ CliOthers(u) /\ up'[u].step = "idle"
      BY <2>3, CliProcessEnds DEF CliTypeOK, CliSteps
    <3>3. up[u].step = "download"
      BY <1>3, <2>3 DEF Cli!Download
    <3>4. CliEnded(u)
      BY <2>1, <3>2, <3>3 DEF CliEnded, Cli!Swapping
    <3> QED BY <2>1, <3>2, <3>4 DEF CliHappens, CliTypeOK
  <2> QED BY <1>3, <2>2, <2>3 DEF Cli!Download
<1>4. ASSUME NEW u \in Updaters, Cli!Verify(u) PROVE CliTypeOK' /\ CliHappens
  <2>1. CliReleases' /\ CliParts /\ UNCHANGED <<published, faults, overlapped>>
    BY <1>4 DEF Cli!Verify, CliTypeOK, CliReleases, CliParts
  <2>2. CASE up[u].archive = "damaged"
    <3>1. Cli!Ends(u)
      BY <1>4, <2>2 DEF Cli!Verify
    <3>2. CliProcesses' /\ CliOthers(u) /\ up'[u].step = "idle"
      BY <3>1, CliProcessEnds DEF CliTypeOK, CliSteps
    <3>3. up[u].step = "verify"
      BY <1>4, <2>2 DEF Cli!Verify
    <3>4. CliEnded(u)
      BY <2>1, <3>2, <3>3 DEF CliEnded, Cli!Swapping
    <3> QED BY <2>1, <3>2, <3>4 DEF CliHappens, CliTypeOK
  <2>3. CASE up[u].archive # "damaged"
    <3>1. Cli!Goes(u, "extract")
      BY <1>4, <2>3 DEF Cli!Verify
    <3>2. CliProcesses' /\ CliOthers(u) /\ CliGoal(u) /\ up'[u].step = "extract" /\ up'[u].archive = up[u].archive
      BY <3>1, CliProcessGoes DEF CliTypeOK, CliSteps
    <3>3. up[u].step = "verify" /\ up[u].archive # "damaged"
      BY <1>4, <2>3 DEF Cli!Verify
    <3>4. CliWentOn(u)
      BY <2>1, <3>2, <3>3 DEF CliWentOn, Cli!Swapping
    <3> QED BY <2>1, <3>2, <3>4 DEF CliHappens, CliTypeOK
  <2> QED BY <1>4, <2>2, <2>3 DEF Cli!Verify
<1>5. ASSUME NEW u \in Updaters, Cli!Extract(u) PROVE CliTypeOK' /\ CliHappens
  <2>1. CliReleases' /\ CliParts /\ UNCHANGED <<published, faults, overlapped>>
    BY <1>5 DEF Cli!Extract, CliTypeOK, CliReleases, CliParts
  <2>2. CASE up[u].archive = "without web"
    <3>1. Cli!Ends(u)
      BY <1>5, <2>2 DEF Cli!Extract
    <3>2. CliProcesses' /\ CliOthers(u) /\ up'[u].step = "idle"
      BY <3>1, CliProcessEnds DEF CliTypeOK, CliSteps
    <3>3. up[u].step = "extract"
      BY <1>5, <2>2 DEF Cli!Extract
    <3>4. CliEnded(u)
      BY <2>1, <3>2, <3>3 DEF CliEnded, Cli!Swapping
    <3> QED BY <2>1, <3>2, <3>4 DEF CliHappens, CliTypeOK
  <2>3. CASE up[u].archive # "without web"
    <3>1. Cli!Goes(u, "binary")
      BY <1>5, <2>3 DEF Cli!Extract
    <3>2. CliProcesses' /\ CliOthers(u) /\ CliGoal(u) /\ up'[u].step = "binary" /\ up'[u].archive = up[u].archive
      BY <3>1, CliProcessGoes DEF CliTypeOK, CliSteps
    <3>3. up[u].step = "extract"
      BY <1>5, <2>3 DEF Cli!Extract
    <3>4. CliWentOn(u)
      BY <2>1, <3>2, <3>3 DEF CliWentOn, Cli!Swapping
    <3> QED BY <2>1, <3>2, <3>4 DEF CliHappens, CliTypeOK
  <2> QED BY <1>5, <2>2, <2>3 DEF Cli!Extract
<1>6. ASSUME NEW u \in Updaters, Cli!SwapBinary(u) PROVE CliTypeOK' /\ CliHappens
  <2>1. CliReleases' /\ UNCHANGED <<published, faults, overlapped>>
    BY <1>6, CliFields DEF Cli!SwapBinary, Cli!Installs, CliTypeOK, CliReleases, Cli!None
  <2>2. CliProcesses' /\ CliOthers(u) /\ CliGoal(u) /\ up'[u].step = "remove web" /\ up'[u].archive = up[u].archive
    BY <1>6, CliProcessGoes DEF Cli!SwapBinary, CliTypeOK, CliSteps
  <2>3. /\ up[u].step = "binary"
        /\ installed'.binary = (IF up[u].archive = "damaged" THEN Cli!None ELSE up[u].release)
        /\ installed'.web = installed.web /\ installed'.npm = installed.npm
    BY <1>6 DEF Cli!SwapBinary, Cli!Installs, CliTypeOK, CliReleases
  <2>4. CliSwapped(u)
    BY <2>1, <2>2, <2>3 DEF CliSwapped
  <2> QED BY <2>1, <2>2, <2>4 DEF CliHappens, CliTypeOK
<1>7. ASSUME NEW u \in Updaters, Cli!RemoveWeb(u) PROVE CliTypeOK' /\ CliHappens
  <2>1. CliReleases' /\ UNCHANGED <<published, faults, overlapped>>
    BY <1>7 DEF Cli!RemoveWeb, CliTypeOK, CliReleases, Cli!None
  <2>2. CliProcesses' /\ CliOthers(u) /\ CliGoal(u) /\ up'[u].step = "web" /\ up'[u].archive = up[u].archive
    BY <1>7, CliProcessGoes DEF Cli!RemoveWeb, CliTypeOK, CliSteps
  <2>3. /\ up[u].step = "remove web"
        /\ installed'.binary = installed.binary /\ installed'.web = Cli!None /\ installed'.npm = installed.npm
    BY <1>7 DEF Cli!RemoveWeb, CliTypeOK, CliReleases
  <2>4. CliSwapped(u)
    BY <2>1, <2>2, <2>3 DEF CliSwapped
  <2> QED BY <2>1, <2>2, <2>4 DEF CliHappens, CliTypeOK
<1>8. ASSUME NEW u \in Updaters, Cli!SwapWeb(u) PROVE CliTypeOK' /\ CliHappens
  <2>1. UNCHANGED <<published, faults, overlapped>>
    BY <1>8 DEF Cli!SwapWeb
  <2>2. CliProcesses' /\ CliOthers(u) /\ up'[u].step = "idle"
    BY <1>8, CliProcessEnds DEF Cli!SwapWeb, CliTypeOK
  <2>3. /\ up[u].step = "web" /\ CliReleases'
        /\ installed'.binary = installed.binary /\ installed'.npm = installed.npm
        /\ installed'.web = (IF installed.web # Cli!None THEN installed.web
                             ELSE IF up[u].archive = "damaged" THEN Cli!None ELSE up[u].release)
    <3>1. CASE installed.web = Cli!None
      BY <1>8, <3>1, CliFields DEF Cli!SwapWeb, Cli!Installs, CliTypeOK, CliReleases, Cli!None
    <3>2. CASE installed.web # Cli!None
      BY <1>8, <3>2 DEF Cli!SwapWeb, CliTypeOK, CliReleases
    <3> QED BY <3>1, <3>2
  <2>4. CliEnded(u)
    BY <2>1, <2>2, <2>3 DEF CliEnded
  <2> QED BY <2>2, <2>3, <2>4 DEF CliHappens, CliTypeOK
<1>9. ASSUME NEW u \in Updaters, NEW works \in BOOLEAN, Cli!Npm(u, works) PROVE CliTypeOK' /\ CliHappens
  <2>1. UNCHANGED <<published, faults, overlapped>>
    BY <1>9 DEF Cli!Npm
  <2>2. CliProcesses' /\ CliOthers(u) /\ up'[u].step = "idle"
    BY <1>9, CliProcessEnds DEF Cli!Npm, CliTypeOK
  <2>3. /\ up[u].step = "npm" /\ CliReleases'
        /\ \/ CliParts
           \/ /\ installed'.binary = installed.binary /\ installed'.web = installed.web
              /\ installed'.npm = up[u].release
    <3>1. CASE works
      BY <1>9, <3>1, CliFields DEF Cli!Npm, CliTypeOK, CliReleases
    <3>2. CASE ~works
      BY <1>9, <3>2 DEF Cli!Npm, CliTypeOK, CliReleases, CliParts
    <3> QED BY <3>1, <3>2
  <2>4. CliEnded(u)
    BY <2>1, <2>2, <2>3 DEF CliEnded, Cli!Swapping
  <2> QED BY <2>2, <2>3, <2>4 DEF CliHappens, CliTypeOK
<1>10. ASSUME NEW u \in Updaters, Cli!Break(u) PROVE CliTypeOK' /\ CliHappens
  <2>1. CliReleases' /\ CliParts /\ faults' # 0 /\ UNCHANGED <<published, overlapped>>
    BY <1>10 DEF Cli!Break, CliTypeOK, CliReleases, CliParts
  <2>2. up[u].step # "idle"
    BY <1>10 DEF Cli!Break
  <2>3. CliProcesses' /\ CliOthers(u) /\ up'[u].step = "idle"
    BY <1>10, CliProcessEnds DEF Cli!Break, CliTypeOK
  <2>4. CliEnded(u)
    BY <2>1, <2>2, <2>3 DEF CliEnded
  <2> QED BY <2>1, <2>3, <2>4 DEF CliHappens, CliTypeOK
<1>11. CASE UNCHANGED Cli!vars
  BY <1>11 DEF Cli!vars, CliTypeOK, CliReleases, CliProcesses, CliHappens, CliQuiet, CliParts
<1>12. ASSUME NEW u \in Updaters,
              \/ \E archive \in CliArchives : Cli!Download(u, archive)
              \/ Cli!Verify(u) \/ Cli!Extract(u) \/ Cli!SwapBinary(u) \/ Cli!RemoveWeb(u) \/ Cli!SwapWeb(u)
              \/ \E works \in BOOLEAN : Cli!Npm(u, works)
              \/ Cli!Break(u)
       PROVE  CliTypeOK' /\ CliHappens
  BY <1>3, <1>4, <1>5, <1>6, <1>7, <1>8, <1>9, <1>10, <1>12
<1>13. ASSUME NEW u \in Updaters,
              \E method \in {"binary", "npm"} : \E release \in published :
                \E wants \in {"newer", "any"} : \E prerelease, goes \in BOOLEAN :
                  Cli!Start(u, method, release, prerelease, wants, goes)
       PROVE  CliTypeOK' /\ CliHappens
  BY <1>2, <1>13
<1> HIDE DEF CliHappens
<1> QED BY <1>1, <1>11, <1>12, <1>13 DEF Cli!Next, CliArchives

-----------------------------------------------------------------------------
(* What is installed, and what will be, was published.                       *)
LEMMA CliGenuineKept ==
  ASSUME CliTypeOK, CliGenuine, CliHappens
  PROVE  CliGenuine'
<1> USE DEF CliParts, CliOthers, CliGenuine, CliSteps, Cli!None
<1>1. \A v \in Updaters : up[v].step \in CliSteps /\ up[v].release \in Nat /\ up[v].wants \in {"newer", "any"}
  BY CliFields
<1>2. published \subseteq Nat /\ installed.binary \in Nat /\ installed.web \in Nat /\ installed.npm \in Nat
  BY DEF CliTypeOK, CliReleases
<1>3. CASE CliQuiet
  BY <1>1, <1>2, <1>3 DEF CliQuiet
<1>4. ASSUME NEW u \in Updaters, CliOthers(u), CliBegan(u) PROVE CliGenuine'
  BY <1>1, <1>2, <1>4 DEF CliBegan
<1>5. ASSUME NEW u \in Updaters, CliOthers(u), CliWentOn(u) PROVE CliGenuine'
  <2>1. /\ up[u].step # "idle" /\ up'[u].release = up[u].release /\ published' = published
        /\ up'[u].step \in {"extract", "binary"} => up[u].archive # "damaged" /\ up'[u].archive = up[u].archive
        /\ up'[u].step \notin {"idle", "remove web", "web"}
    BY <1>5 DEF CliWentOn, CliGoal
  <2>2. CliParts
    BY <1>5 DEF CliWentOn
  <2> QED BY <1>5, <2>1, <2>2
<1>6. ASSUME NEW u \in Updaters, CliOthers(u), CliSwapped(u) PROVE CliGenuine'
  <2>1. CASE up[u].step = "binary" /\ up'[u].step = "remove web"
    BY <1>1, <1>2, <1>6, <2>1 DEF CliSwapped, CliGoal
  <2>2. CASE up[u].step = "remove web" /\ up'[u].step = "web"
    BY <1>1, <1>2, <1>6, <2>2 DEF CliSwapped, CliGoal
  <2> QED BY <1>6, <2>1, <2>2 DEF CliSwapped
<1>7. ASSUME NEW u \in Updaters, CliOthers(u), CliEnded(u) PROVE CliGenuine'
  BY <1>1, <1>2, <1>7 DEF CliEnded
<1> QED BY <1>3, <1>4, <1>5, <1>6, <1>7 DEF CliHappens

(* One update at a time, or two have overlapped.                             *)
LEMMA CliAloneKept ==
  ASSUME CliTypeOK, CliAlone, CliHappens
  PROVE  CliAlone'
<1> USE DEF CliOthers, CliAlone
<1>3. CASE CliQuiet
  BY <1>3 DEF CliQuiet
<1>4. ASSUME NEW u \in Updaters, CliOthers(u), CliBegan(u) PROVE CliAlone'
  BY <1>4 DEF CliBegan
<1>5. ASSUME NEW u \in Updaters, CliOthers(u), CliWentOn(u) PROVE CliAlone'
  <2>1. up[u].step # "idle" /\ (overlapped' <=> overlapped)
    BY <1>5 DEF CliWentOn
  <2> QED BY <1>5, <2>1
<1>6. ASSUME NEW u \in Updaters, CliOthers(u), CliSwapped(u) PROVE CliAlone'
  <2>1. up[u].step # "idle" /\ (overlapped' <=> overlapped)
    BY <1>6 DEF CliSwapped
  <2> QED BY <1>6, <2>1
<1>7. ASSUME NEW u \in Updaters, CliOthers(u), CliEnded(u) PROVE CliAlone'
  BY <1>7 DEF CliEnded
<1> QED BY <1>3, <1>4, <1>5, <1>6, <1>7 DEF CliHappens

(* The one under way goes forward.                                           *)
LEMMA CliAheadKept ==
  ASSUME CliTypeOK, CliAlone, CliAhead, CliHappens
  PROVE  CliAhead'
<1> USE DEF CliParts, CliOthers, CliAlone, CliAhead
<1>1. \A v \in Updaters : up[v].step \in CliSteps /\ up[v].release \in Nat /\ up[v].wants \in {"newer", "any"}
  BY CliFields
<1>2. published \subseteq Nat /\ installed.binary \in Nat /\ installed.web \in Nat /\ installed.npm \in Nat
  BY DEF CliTypeOK, CliReleases
<1>3. CASE CliQuiet
  BY <1>1, <1>2, <1>3 DEF CliQuiet
<1>4. ASSUME NEW u \in Updaters, CliOthers(u), CliBegan(u) PROVE CliAhead'
  BY <1>1, <1>2, <1>4 DEF CliBegan
<1>5. ASSUME NEW u \in Updaters, CliOthers(u), CliWentOn(u) PROVE CliAhead'
  BY <1>1, <1>2, <1>5 DEF CliWentOn, CliGoal
<1>6. ASSUME NEW u \in Updaters, CliOthers(u), CliSwapped(u) PROVE CliAhead'
  BY <1>1, <1>2, <1>6 DEF CliSwapped, CliGoal
<1>7. ASSUME NEW u \in Updaters, CliOthers(u), CliEnded(u) PROVE CliAhead'
  BY <1>1, <1>2, <1>7 DEF CliEnded
<1> QED BY <1>3, <1>4, <1>5, <1>6, <1>7 DEF CliHappens

(* The binary and web/ go together.                                          *)
LEMMA CliPairedKept ==
  ASSUME CliTypeOK, CliGenuine, CliAlone, CliPaired, CliHappens
  PROVE  CliPaired'
<1> USE DEF CliParts, CliOthers, CliGenuine, CliAlone, CliPaired, Cli!Swapping, Cli!None
<1>1. \A v \in Updaters : up[v].step \in CliSteps /\ up[v].release \in Nat /\ up[v].wants \in {"newer", "any"}
  BY CliFields
<1>2. published \subseteq Nat /\ installed.binary \in Nat /\ installed.web \in Nat /\ installed.npm \in Nat
  BY DEF CliTypeOK, CliReleases
<1>3. CASE CliQuiet
  BY <1>1, <1>2, <1>3 DEF CliQuiet
<1>4. ASSUME NEW u \in Updaters, CliOthers(u), CliBegan(u) PROVE CliPaired'
  BY <1>1, <1>2, <1>4 DEF CliBegan
<1>5. ASSUME NEW u \in Updaters, CliOthers(u), CliWentOn(u) PROVE CliPaired'
  BY <1>1, <1>2, <1>5 DEF CliWentOn, CliGoal
<1>6. ASSUME NEW u \in Updaters, CliOthers(u), CliSwapped(u) PROVE CliPaired'
  <2>1. CASE up[u].step = "binary" /\ up'[u].step = "remove web"
    BY <1>1, <1>2, <1>6, <2>1 DEF CliSwapped, CliGoal
  <2>2. CASE up[u].step = "remove web" /\ up'[u].step = "web"
    BY <1>1, <1>2, <1>6, <2>2 DEF CliSwapped, CliGoal
  <2> QED BY <1>6, <2>1, <2>2 DEF CliSwapped
<1>7. ASSUME NEW u \in Updaters, CliOthers(u), CliEnded(u) PROVE CliPaired'
  BY <1>1, <1>2, <1>7 DEF CliEnded
<1> QED BY <1>3, <1>4, <1>5, <1>6, <1>7 DEF CliHappens

LEMMA CliNextKeeps == ASSUME CliHasVersions PROVE CliIInv /\ [Cli!Next]_Cli!vars => CliIInv'
BY CliStepsHappen, CliGenuineKept, CliAloneKept, CliAheadKept, CliPairedKept DEF CliIInv

LEMMA CliIsWhole == CliIInv => Cli!InstallIsWhole
BY DEF CliIInv, CliGenuine, CliPaired, Cli!InstallIsWhole

LEMMA CliGoesForward == ASSUME CliHasVersions PROVE CliIInv /\ [Cli!Next]_Cli!vars => Cli!Forward
<1> SUFFICES ASSUME CliIInv, [Cli!Next]_Cli!vars PROVE Cli!Forward
  OBVIOUS
<1>1. CliHappens /\ CliTypeOK
  BY CliStepsHappen DEF CliIInv
<1>2. /\ installed.binary \in Nat /\ installed.npm \in Nat
      /\ \A u \in Updaters : up[u].wants \in {"newer", "any"} /\ up[u].release \in Nat
  BY <1>1, CliFields DEF CliTypeOK, CliReleases
<1>3. CASE CliQuiet
  BY <1>2, <1>3 DEF CliQuiet, CliParts, Cli!Forward
<1>4. ASSUME NEW u \in Updaters, CliBegan(u) \/ CliWentOn(u) PROVE Cli!Forward
  BY <1>2, <1>4 DEF CliBegan, CliWentOn, CliParts, Cli!Forward
<1>5. ASSUME NEW u \in Updaters, CliSwapped(u) PROVE Cli!Forward
  <2>1. installed'.npm = installed.npm
    BY <1>5 DEF CliSwapped
  <2>2. CASE up[u].step = "binary"
    <3>1. installed'.binary = up[u].release
      BY <1>5, <2>2 DEF CliSwapped, CliIInv, CliGenuine
    <3>2. up[u].wants = "newer" /\ ~overlapped => up[u].release > installed.binary
      BY <2>2 DEF CliIInv, CliAhead
    <3> QED BY <1>2, <2>1, <3>1, <3>2 DEF Cli!Forward
  <2>3. CASE up[u].step # "binary"
    <3>1. installed'.binary = installed.binary
      BY <1>5, <2>3 DEF CliSwapped
    <3> QED BY <1>2, <2>1, <3>1 DEF Cli!Forward
  <2> QED BY <2>2, <2>3
<1>6. ASSUME NEW u \in Updaters, CliEnded(u) PROVE Cli!Forward
  BY <1>2, <1>6 DEF CliEnded, CliParts, Cli!Forward, CliIInv, CliAhead
<1> QED BY <1>1, <1>3, <1>4, <1>5, <1>6 DEF CliHappens

-----------------------------------------------------------------------------
(* Calls of the model (ProviderCall).                                        *)

ProviderIsCall(c) ==
  /\ DOMAIN c = {"step", "adapter", "streaming", "net", "hop", "redirects", "attempt", "content", "shown",
                 "whole", "records"}
  /\ c.shown \in Nat /\ c.content \in Nat

(* As long as text of a stream may still be asked for, what was shown is the *)
(* text of this attempt.                                                     *)
ProviderShown(c) ==
  /\ c.streaming /\ c.step \in {"checking", "sent", "waiting"} => c.shown = 0
  /\ c.streaming /\ c.step \in {"reading", "answered"} => c.shown = c.content
  /\ c.step = "answered" /\ c.adapter = "anthropic" => c.whole

ProviderPooled ==
  /\ pool = [policy |-> pool.policy, enabled |-> pool.enabled, cursor |-> pool.cursor]
  /\ pool.enabled \subseteq 1 .. PoolSize /\ pool.cursor \in Nat
  /\ used \in [1 .. PoolSize -> Nat]

(* The cursor has gone round the enabled entries some times, and on to one   *)
(* that is next: those before it have had one call more.                     *)
ProviderTurns(q, r) ==
  /\ pool.cursor = q * Cardinality(pool.enabled) + r
  /\ \A e \in pool.enabled : used[e] = IF Provider!Index(e) < r THEN q + 1 ELSE q

ProviderEven ==
  pool.policy = "round-robin" /\ Cardinality(pool.enabled) > 1 =>
    \E q \in Nat, r \in 0 .. Cardinality(pool.enabled) - 1 : ProviderTurns(q, r)

ProviderIInv == ProviderIsCall(call) /\ ProviderShown(call) /\ ProviderPooled /\ ProviderEven

-----------------------------------------------------------------------------
(* The entries before another are fewer than all, and no two entries have as *)
(* many before them.                                                         *)
LEMMA ProviderCounts == ASSUME NEW S PROVE Provider!Cardinality(S) = Cardinality(S)
BY DEF Provider!Cardinality, Cardinality

LEMMA ProviderSizes ==
  ASSUME NEW S \in SUBSET (1 .. PoolSize)
  PROVE  IsFiniteSet(S) /\ Cardinality(S) \in Nat
<1>1. IsFiniteSet(1 .. PoolSize)
  BY PlatformAssumption, FS_Interval
<1> QED BY <1>1, FS_Subset, FS_CardinalityType

LEMMA ProviderOrders ==
  ASSUME ProviderPooled, NEW a \in pool.enabled
  PROVE  /\ Provider!Index(a) \in Nat /\ Provider!Index(a) < Cardinality(pool.enabled)
         /\ \A b \in pool.enabled : a < b => Provider!Index(a) < Provider!Index(b)
<1> DEFINE Before(e) == {d \in pool.enabled : d < e}
<1>1. \A e : Provider!Index(e) = Cardinality(Before(e))
  BY ProviderCounts DEF Provider!Index
<1>2. pool.enabled \in SUBSET (1 .. PoolSize) /\ \A e : Before(e) \in SUBSET (1 .. PoolSize)
  BY DEF ProviderPooled
<1>3. \A e \in pool.enabled : e \in Nat
  BY <1>2, PlatformAssumption
<1>4. Before(a) \subseteq pool.enabled /\ Before(a) # pool.enabled
  BY <1>3
<1>5. Cardinality(Before(a)) \in Nat /\ Cardinality(Before(a)) < Cardinality(pool.enabled)
  <2>1. Before(a) \in SUBSET (1 .. PoolSize)
    BY <1>2
  <2> HIDE DEF Before
  <2> QED BY <1>2, <1>4, <2>1, ProviderSizes, FS_Subset
<1>6. ASSUME NEW b \in pool.enabled, a < b PROVE Cardinality(Before(a)) < Cardinality(Before(b))
  <2>1. Before(a) \subseteq Before(b) /\ a \in Before(b) /\ a \notin Before(a)
    BY <1>3, <1>6
  <2>2. Before(b) \in SUBSET (1 .. PoolSize)
    BY <1>2
  <2> HIDE DEF Before
  <2>3. Before(a) # Before(b)
    BY <2>1
  <2> QED BY <2>1, <2>2, <2>3, ProviderSizes, FS_Subset
<1> HIDE DEF Before
<1> QED BY <1>1, <1>5, <1>6

LEMMA ProviderIndexes ==
  ASSUME ProviderPooled, NEW a \in pool.enabled, NEW b \in pool.enabled, Provider!Index(a) = Provider!Index(b)
  PROVE  a = b
<1>1. a \in Nat /\ b \in Nat
  BY PlatformAssumption DEF ProviderPooled
<1>2. ~(a < b) /\ ~(b < a)
  BY ProviderOrders
<1> QED BY <1>1, <1>2

LEMMA ProviderRemainder ==
  ASSUME NEW n \in Nat \ {0}, NEW q \in Nat, NEW r \in 0 .. n - 1
  PROVE  (q * n + r) % n = r /\ q * n + n = (q + 1) * n + 0
<1>1. q * n = n * q
  OBVIOUS
<1>2. (n * q + r) % n = r
  OBVIOUS
<1> QED BY <1>1, <1>2

-----------------------------------------------------------------------------
(* The pool.                                                                 *)

LEMMA ProviderAdvances ==
  ASSUME ProviderPooled, ProviderEven, NEW slot \in pool.enabled,
         Provider!NextSlot(slot), used' = [used EXCEPT ![slot] = @ + 1]
  PROVE  ProviderPooled' /\ ProviderEven'
<1> DEFINE n == Cardinality(pool.enabled)
<1>1. \A e \in 1 .. PoolSize : used[e] \in Nat
  BY DEF ProviderPooled
<1>2. used' \in [1 .. PoolSize -> Nat] /\ slot \in 1 .. PoolSize
      /\ \A e \in 1 .. PoolSize : used'[e] = IF e = slot THEN used[e] + 1 ELSE used[e]
  BY <1>1 DEF ProviderPooled
<1>3. n \in Nat /\ Provider!Cardinality(pool.enabled) = n
  BY ProviderCounts, ProviderSizes DEF ProviderPooled
<1>4. CASE n = 1 \/ pool.policy # "round-robin"
  <2>1. pool' = pool
    BY <1>3, <1>4 DEF Provider!NextSlot
  <2> QED BY <1>2, <1>3, <1>4, <2>1 DEF ProviderPooled, ProviderEven
<1>5. CASE n # 1 /\ pool.policy = "round-robin"
  <2>1. /\ Provider!Index(slot) = pool.cursor % n
        /\ pool' = [pool EXCEPT !.cursor = pool.cursor + 1]
    BY <1>3, <1>5 DEF Provider!NextSlot
  <2>2. /\ pool' = [policy |-> pool.policy, enabled |-> pool.enabled, cursor |-> pool.cursor + 1]
        /\ pool'.policy = pool.policy /\ pool'.enabled = pool.enabled /\ pool'.cursor = pool.cursor + 1
    BY <2>1 DEF ProviderPooled
  <2>3. ProviderPooled'
    BY <1>2, <2>2 DEF ProviderPooled
  <2>4. n # 0
    BY <1>3, ProviderOrders
  <2>5. PICK q \in Nat, r \in 0 .. n - 1 : ProviderTurns(q, r)
    BY <1>3, <1>5, <2>4 DEF ProviderEven
  <2>6. /\ pool.cursor = q * n + r
        /\ \A e \in pool.enabled : used[e] = IF Provider!Index(e) < r THEN q + 1 ELSE q
    BY <2>5 DEF ProviderTurns
  <2>7. r \in Nat /\ r < n /\ Provider!Index(slot) = r
    BY <1>3, <2>1, <2>4, <2>6, ProviderRemainder
  <2>8. \A e \in pool.enabled : e \in 1 .. PoolSize /\ Provider!Index(e) \in Nat /\ Provider!Index(e) < n
    BY ProviderOrders DEF ProviderPooled
  <2>9. \A e \in pool.enabled : e # slot => Provider!Index(e) # r
    BY <2>7, ProviderIndexes
  <2>10. \A e \in pool.enabled : used'[e] = IF Provider!Index(e) < r + 1 THEN q + 1 ELSE q
    BY <1>2, <2>6, <2>7, <2>8, <2>9
  <2>11. \A e : Provider!Index(e)' = Provider!Index(e)
    BY <2>2 DEF Provider!Index
  <2>12. Cardinality(pool'.enabled) = n
    BY <2>2
  <2> HIDE DEF n
  <2>13. CASE r + 1 = n
    <3>1. pool.cursor + 1 = (q + 1) * n + 0
      BY <1>3, <2>4, <2>6, <2>7, <2>13, ProviderRemainder
    <3>2. \A e \in pool.enabled : used'[e] = q + 1
      BY <2>8, <2>10, <2>13
    <3>3. q + 1 \in Nat /\ 0 \in 0 .. n - 1 /\ \A e \in pool.enabled : ~(Provider!Index(e) < 0)
      BY <1>3, <2>4, <2>8
    <3>4. ProviderTurns(q + 1, 0)'
      BY <2>2, <2>11, <2>12, <3>1, <3>2, <3>3 DEF ProviderTurns
    <3> QED BY <2>3, <2>12, <3>3, <3>4 DEF ProviderEven
  <2>14. CASE r + 1 # n
    <3>1. pool.cursor + 1 = q * n + (r + 1) /\ r + 1 \in 0 .. n - 1
      <4>1. q * n \in Nat
        BY <1>3
      <4> QED BY <1>3, <2>6, <2>7, <2>14, <4>1
    <3>2. ProviderTurns(q, r + 1)'
      BY <2>2, <2>10, <2>11, <2>12, <3>1 DEF ProviderTurns
    <3> QED BY <2>3, <2>12, <3>1, <3>2 DEF ProviderEven
  <2> QED BY <2>13, <2>14
<1> QED BY <1>4, <1>5

LEMMA ProviderSaves ==
  ASSUME NEW rotation, NEW enabled \in SUBSET (1 .. PoolSize), Provider!SavePool(rotation, enabled)
  PROVE  ProviderPooled' /\ ProviderEven'
<1>1. /\ pool' = [policy |-> rotation, enabled |-> enabled, cursor |-> 0]
      /\ used' = [e \in 1 .. PoolSize |-> 0]
  BY DEF Provider!SavePool, Provider!PoolEntries
<1>2. pool'.enabled = enabled /\ pool'.cursor = 0 /\ pool'.policy = rotation
  BY <1>1
<1>3. ProviderPooled'
  BY <1>1, <1>2 DEF ProviderPooled
<1>4. Cardinality(enabled) \in Nat
  BY ProviderSizes
<1>5. \A e \in enabled : Provider!Index(e)' \in Nat /\ used'[e] = 0
  <2>1. \A e \in enabled : {d \in enabled : d < e} \in SUBSET (1 .. PoolSize)
    OBVIOUS
  <2>2. \A e \in enabled : Cardinality({d \in enabled : d < e}) \in Nat
    BY <2>1, ProviderSizes
  <2> QED BY <1>1, <1>2, <2>2, ProviderCounts DEF Provider!Index
<1>6. 0 * Cardinality(enabled) + 0 = 0 /\ (Cardinality(enabled) > 1 => 0 \in 0 .. Cardinality(enabled) - 1)
  BY <1>4
<1>7. ProviderTurns(0, 0)'
  <2>1. \A e \in enabled : ~(Provider!Index(e)' < 0)
    BY <1>5
  <2> QED BY <1>2, <1>5, <1>6, <2>1 DEF ProviderTurns
<1> QED BY <1>2, <1>3, <1>6, <1>7 DEF ProviderEven

LEMMA ProviderRotatesEvenly == ProviderIInv => Provider!RotationIsEven
<1> SUFFICES ASSUME ProviderIInv, pool.policy = "round-robin", NEW e \in pool.enabled, NEW f \in pool.enabled
             PROVE  used[e] <= used[f] + 1
  BY DEF Provider!RotationIsEven
<1> DEFINE n == Cardinality(pool.enabled)
<1>1. pool.enabled \in SUBSET (1 .. PoolSize) /\ n \in Nat /\ used[e] \in Nat /\ used[f] \in Nat
  BY ProviderSizes DEF ProviderIInv, ProviderPooled
<1>2. CASE n > 1
  <2>1. PICK q \in Nat, r \in 0 .. n - 1 : ProviderTurns(q, r)
    BY <1>2 DEF ProviderIInv, ProviderEven
  <2> QED BY <2>1 DEF ProviderTurns
<1>3. CASE ~(n > 1)
  <2>1. Provider!Index(e) \in Nat /\ Provider!Index(f) \in Nat /\ Provider!Index(e) < n /\ Provider!Index(f) < n
    BY ProviderOrders DEF ProviderIInv
  <2>2. Provider!Index(e) = Provider!Index(f)
    BY <1>1, <1>3, <2>1
  <2>3. e = f
    BY <2>2, ProviderIndexes DEF ProviderIInv
  <2> QED BY <1>1, <2>3
<1> QED BY <1>2, <1>3

-----------------------------------------------------------------------------
(* The call.                                                                 *)

ProviderHolds(c) == ProviderIsCall(c) /\ ProviderShown(c)

LEMMA ProviderFails ==
  ASSUME NEW c, ProviderIsCall(c), NEW retryable, NEW w, w = Provider!Failed(c, retryable)
  PROVE  ProviderHolds(w)
<1>1. /\ ProviderIsCall(w) /\ w.streaming = c.streaming /\ w.shown = c.shown
      /\ w.step \in {"waiting", "failed"}
      /\ w.step = "waiting" => ~(c.streaming /\ c.shown > 0)
  BY DEF ProviderIsCall, Provider!Failed
<1> QED BY <1>1 DEF ProviderHolds, ProviderShown, ProviderIsCall

LEMMA ProviderRecords ==
  ASSUME NEW c, ProviderIsCall(c), NEW w, w = Provider!Recorded(c)
  PROVE  /\ ProviderIsCall(w) /\ w.step = c.step /\ w.streaming = c.streaming /\ w.shown = c.shown
         /\ w.adapter = c.adapter
BY DEF ProviderIsCall, Provider!Recorded

LEMMA ProviderGoesOn ==
  ASSUME NEW c, ProviderIsCall(c), NEW step, NEW w, w = [c EXCEPT !.step = step]
  PROVE  /\ ProviderIsCall(w) /\ w.step = step /\ w.streaming = c.streaming /\ w.shown = c.shown
         /\ w.content = c.content /\ w.adapter = c.adapter /\ w.whole = c.whole
BY DEF ProviderIsCall

LEMMA ProviderBegins ==
  ASSUME NEW adapter, NEW streaming, NEW net
  PROVE  ProviderHolds(Provider!Began(adapter, streaming, net))
<1> DEFINE w == Provider!Began(adapter, streaming, net)
<1>1. ProviderIsCall(w) /\ w.step = "checking" /\ w.shown = 0
  BY DEF Provider!Began, Provider!NoCall, ProviderIsCall
<1> HIDE DEF w
<1>2. ProviderHolds(w)
  BY <1>1 DEF ProviderHolds, ProviderShown
<1> QED BY <1>2 DEF w

LEMMA ProviderCallKeeps ==
  ASSUME ProviderHolds(call),
         \/ Provider!Check
         \/ \E answer \in {"ok", "busy", "dropped", "refused", "nowhere"} : Provider!Respond(answer)
         \/ \E to \in {"own", "other", "restricted"} : Provider!Redirect(to)
         \/ Provider!Delta \/ Provider!LastChunk \/ Provider!CloseStream
         \/ \E retryable \in BOOLEAN : Provider!BreakStream(retryable)
         \/ \E answer \in {"ok", "dropped", "garbled"} : Provider!ReadBody(answer)
         \/ Provider!Retry \/ Provider!Abort
  PROVE  ProviderHolds(call') /\ UNCHANGED <<pool, used>>
<1> USE DEF ProviderHolds
<1>0. ProviderIsCall(call) /\ ProviderIsCall(Provider!Recorded(call))
  BY ProviderRecords
<1>1. CASE Provider!Check
  <2>1. \/ \E c \in {call, Provider!Recorded(call)} : call' = Provider!Failed(c, FALSE)
        \/ call' = [call EXCEPT !.step = "sent"]
    BY <1>1 DEF Provider!Check
  <2>2. CASE call' = [call EXCEPT !.step = "sent"]
    <3>1. /\ ProviderIsCall(call') /\ call'.step = "sent" /\ call'.streaming = call.streaming
          /\ call'.shown = call.shown
      BY <1>0, <2>2, ProviderGoesOn
    <3>2. call.streaming => call.shown = 0
      BY <1>1 DEF ProviderShown, Provider!Check
    <3> QED BY <1>1, <3>1, <3>2 DEF ProviderShown, Provider!Check
  <2> QED BY <1>0, <1>1, <2>1, <2>2, ProviderFails DEF Provider!Check
<1>2. ASSUME NEW answer \in {"ok", "busy", "dropped", "refused", "nowhere"}, Provider!Respond(answer)
      PROVE  ProviderHolds(call') /\ UNCHANGED <<pool, used>>
  <2> DEFINE c == Provider!Recorded(call)
  <2>1. /\ call.step = "sent" /\ UNCHANGED <<pool, used>>
        /\ \/ call' = [c EXCEPT !.step = "reading", !.content = 0, !.whole = FALSE]
           \/ \E retryable : call' = Provider!Failed(c, retryable)
    BY <1>2 DEF Provider!Respond
  <2>2. ProviderIsCall(c) /\ c.streaming = call.streaming /\ c.shown = call.shown
    BY <1>0, ProviderRecords
  <2> HIDE DEF c
  <2>3. CASE call' = [c EXCEPT !.step = "reading", !.content = 0, !.whole = FALSE]
    <3>1. /\ DOMAIN call' = DOMAIN c /\ call'.step = "reading" /\ call'.content = 0
          /\ call'.streaming = c.streaming /\ call'.shown = c.shown
      BY <2>2, <2>3 DEF ProviderIsCall
    <3> QED BY <2>1, <2>2, <3>1 DEF ProviderShown, ProviderIsCall
  <2> QED BY <2>1, <2>2, <2>3, ProviderFails
<1>3. ASSUME NEW to, Provider!Redirect(to) PROVE ProviderHolds(call') /\ UNCHANGED <<pool, used>>
  <2>1. /\ call.step = "sent" /\ UNCHANGED <<pool, used>>
        /\ \/ call' = Provider!Failed(call, FALSE)
           \/ call' = [call EXCEPT !.step = "checking", !.hop = to, !.redirects = @ + 1]
    BY <1>3 DEF Provider!Redirect
  <2>2. CASE call' = [call EXCEPT !.step = "checking", !.hop = to, !.redirects = @ + 1]
    <3>1. /\ DOMAIN call' = DOMAIN call /\ call'.step = "checking" /\ call'.content = call.content
          /\ call'.streaming = call.streaming /\ call'.shown = call.shown
      BY <1>0, <2>2 DEF ProviderIsCall
    <3> QED BY <1>0, <2>1, <3>1 DEF ProviderShown, ProviderIsCall
  <2> QED BY <1>0, <2>1, <2>2, ProviderFails
<1>4. CASE Provider!Delta
  <2>1. /\ call.step = "reading" /\ UNCHANGED <<pool, used>>
        /\ call' = [call EXCEPT !.content = @ + 1, !.shown = @ + 1]
        /\ call.streaming
    BY <1>4 DEF Provider!Delta, Provider!Streaming, Provider!Reading
  <2>2. /\ DOMAIN call' = DOMAIN call /\ call'.step = call.step /\ call'.content = call.content + 1
        /\ call'.streaming = call.streaming /\ call'.shown = call.shown + 1
    BY <1>0, <2>1 DEF ProviderIsCall
  <2> QED BY <1>0, <2>1, <2>2 DEF ProviderShown, ProviderIsCall
<1>5. CASE Provider!LastChunk
  <2>1. /\ call.step = "reading" /\ UNCHANGED <<pool, used>> /\ call' = [call EXCEPT !.whole = TRUE]
    BY <1>5 DEF Provider!LastChunk, Provider!Streaming, Provider!Reading
  <2>2. /\ DOMAIN call' = DOMAIN call /\ call'.step = call.step /\ call'.content = call.content
        /\ call'.streaming = call.streaming /\ call'.shown = call.shown
    BY <1>0, <2>1 DEF ProviderIsCall
  <2> QED BY <1>0, <2>1, <2>2 DEF ProviderShown, ProviderIsCall
<1>6. ASSUME NEW retryable, Provider!CloseStream \/ Provider!BreakStream(retryable)
      PROVE  ProviderHolds(call') /\ UNCHANGED <<pool, used>>
  <2>1. /\ call.step = "reading" /\ call.streaming /\ UNCHANGED <<pool, used>>
        /\ \/ \E again : call' = Provider!Failed(call, again)
           \/ call' = [call EXCEPT !.step = "answered"] /\ (call.adapter = "anthropic" => call.whole)
    BY <1>6 DEF Provider!CloseStream, Provider!BreakStream, Provider!Answered,
       Provider!Streaming, Provider!Reading
  <2>2. CASE call' = [call EXCEPT !.step = "answered"] /\ (call.adapter = "anthropic" => call.whole)
    <3>1. /\ ProviderIsCall(call') /\ call'.step = "answered" /\ call'.streaming = call.streaming
          /\ call'.shown = call.shown /\ call'.content = call.content /\ call'.adapter = call.adapter
          /\ call'.whole = call.whole
      BY <1>0, <2>2, ProviderGoesOn
    <3> QED BY <2>1, <2>2, <3>1 DEF ProviderShown
  <2> QED BY <1>0, <2>1, <2>2, ProviderFails
<1>7. ASSUME NEW answer \in {"ok", "dropped", "garbled"}, Provider!ReadBody(answer)
      PROVE  ProviderHolds(call') /\ UNCHANGED <<pool, used>>
  <2> DEFINE c == [call EXCEPT !.whole = TRUE]
  <2>1. /\ ~call.streaming /\ UNCHANGED <<pool, used>>
        /\ \/ \E again : call' = Provider!Failed(call, again)
           \/ call' = [c EXCEPT !.step = "answered"]
    BY <1>7 DEF Provider!ReadBody, Provider!Answered
  <2>2. ProviderIsCall(c) /\ c.streaming = call.streaming /\ c.whole
    BY <1>0 DEF ProviderIsCall
  <2> HIDE DEF c
  <2>3. CASE call' = [c EXCEPT !.step = "answered"]
    <3>1. ProviderIsCall(call') /\ call'.step = "answered"
      BY <2>2, <2>3, ProviderGoesOn
    <3>2. call'.streaming = c.streaming /\ call'.whole = c.whole
      BY <2>2, <2>3 DEF ProviderIsCall
    <3> QED BY <2>1, <2>2, <3>1, <3>2 DEF ProviderShown
  <2> QED BY <1>0, <2>1, <2>3, ProviderFails
<1>8. CASE Provider!Retry
  <2>1. /\ call.step = "waiting" /\ UNCHANGED <<pool, used>>
        /\ call' = [call EXCEPT !.step = "checking", !.attempt = @ + 1, !.hop = "own", !.redirects = 0]
    BY <1>8 DEF Provider!Retry
  <2>2. /\ DOMAIN call' = DOMAIN call /\ call'.step = "checking" /\ call'.content = call.content
        /\ call'.streaming = call.streaming /\ call'.shown = call.shown
    BY <1>0, <2>1 DEF ProviderIsCall
  <2> QED BY <1>0, <2>1, <2>2 DEF ProviderShown, ProviderIsCall
<1>9. CASE Provider!Abort
  <2>1. UNCHANGED <<pool, used>> /\ \E c \in {call, Provider!Recorded(call)} : call' = Provider!Failed(c, FALSE)
    BY <1>9 DEF Provider!Abort
  <2> QED BY <1>0, <2>1, ProviderFails
<1> QED BY <1>1, <1>2, <1>3, <1>4, <1>5, <1>6, <1>7, <1>8, <1>9

LEMMA ProviderInitHolds == Provider!Init => ProviderIInv
<1> SUFFICES ASSUME Provider!Init PROVE ProviderIInv
  OBVIOUS
<1> DEFINE all == 1 .. PoolSize
<1>1. /\ pool = [policy |-> "round-robin", enabled |-> all, cursor |-> 0]
      /\ used = [e \in all |-> 0] /\ call = Provider!NoCall
  BY DEF Provider!Init, Provider!PoolEntries
<1>2. ProviderHolds(call)
  BY <1>1 DEF ProviderHolds, ProviderIsCall, ProviderShown, Provider!NoCall
<1>3. ProviderPooled
  BY <1>1 DEF ProviderPooled
<1>4. pool.enabled = all /\ pool.cursor = 0 /\ Cardinality(all) \in Nat
  BY <1>1, ProviderSizes
<1>5. ProviderTurns(0, 0)
  <2>1. \A e \in all : ~(Provider!Index(e) < 0)
    BY <1>3, <1>4, ProviderOrders
  <2>2. 0 * Cardinality(all) + 0 = 0
    BY <1>4
  <2> QED BY <1>1, <1>4, <2>1, <2>2 DEF ProviderTurns
<1>6. Cardinality(all) > 1 => 0 \in 0 .. Cardinality(all) - 1
  BY <1>4
<1> HIDE DEF all
<1> QED BY <1>2, <1>3, <1>4, <1>5, <1>6 DEF ProviderIInv, ProviderEven, ProviderHolds

LEMMA ProviderNextKeeps == ProviderIInv /\ [Provider!Next]_Provider!vars => ProviderIInv'
<1> SUFFICES ASSUME ProviderIInv, [Provider!Next]_Provider!vars PROVE ProviderIInv'
  OBVIOUS
<1>0. ProviderHolds(call) /\ ProviderPooled /\ ProviderEven
  BY DEF ProviderIInv, ProviderHolds
<1>1. ASSUME UNCHANGED <<pool, used>> PROVE ProviderPooled' /\ ProviderEven'
  BY <1>0, <1>1 DEF ProviderPooled, ProviderEven, ProviderTurns, Provider!Index
<1>2. CASE UNCHANGED Provider!vars
  BY <1>0, <1>1, <1>2 DEF Provider!vars, ProviderIInv, ProviderHolds
<1>3. ASSUME NEW rotation, NEW enabled \in SUBSET (1 .. PoolSize), Provider!SavePool(rotation, enabled)
      PROVE  ProviderIInv'
  <2>1. call' = call
    BY <1>3 DEF Provider!SavePool
  <2> QED BY <1>0, <1>3, <2>1, ProviderSaves DEF ProviderIInv, ProviderHolds
<1>4. ASSUME NEW adapter, NEW streaming, NEW chosen, NEW net, Provider!Start(adapter, streaming, net, chosen)
      PROVE  ProviderIInv'
  <2>1. ProviderHolds(call')
    BY <1>4, ProviderBegins DEF Provider!Start
  <2>2. CASE UNCHANGED <<pool, used>>
    BY <1>1, <2>1, <2>2 DEF ProviderIInv, ProviderHolds
  <2>3. CASE \E slot \in pool.enabled :
               Provider!NextSlot(slot) /\ used' = [used EXCEPT ![slot] = @ + 1]
    BY <1>0, <2>1, <2>3, ProviderAdvances DEF ProviderIInv, ProviderHolds
  <2> QED BY <1>4, <2>2, <2>3 DEF Provider!Start
<1>5. CASE \/ Provider!Check
           \/ \E answer \in {"ok", "busy", "dropped", "refused", "nowhere"} : Provider!Respond(answer)
           \/ \E to \in {"own", "other", "restricted"} : Provider!Redirect(to)
           \/ Provider!Delta \/ Provider!LastChunk \/ Provider!CloseStream
           \/ \E retryable \in BOOLEAN : Provider!BreakStream(retryable)
           \/ \E answer \in {"ok", "dropped", "garbled"} : Provider!ReadBody(answer)
           \/ Provider!Retry \/ Provider!Abort
  BY <1>0, <1>1, <1>5, ProviderCallKeeps DEF ProviderIInv, ProviderHolds
<1> QED BY <1>2, <1>3, <1>4, <1>5 DEF Provider!Next, Provider!PoolEntries

LEMMA ProviderIsSafe == ProviderIInv => Provider!RetriesAreSafe
<1>1. ProviderIInv => Provider!AnswerIsShownOnce
  BY DEF ProviderIInv, ProviderShown, Provider!AnswerIsShownOnce
<1> QED BY <1>1, ProviderRotatesEvenly DEF Provider!RetriesAreSafe

-----------------------------------------------------------------------------
(* The local memory (MemoryStore).                                           *)

(* What an entry's file, a place, a job and the history look like.           *)
MemoryIsFile(x) ==
  /\ x = [status |-> x.status, entries |-> x.entries]
  /\ x.status \in {"absent", "torn", "whole"}
  /\ x.status # "whole" => x.entries = {}

MemoryAtWork == {"truncate", "fill"}
MemoryBusy == {"truncate", "fill", "markdown"}

MemoryIsJob(r) ==
  /\ DOMAIN r = {"op", "step", "dirs", "text", "id", "copy", "left", "known", "imported", "added", "alone"}
  /\ r.step \in {"idle", "read", "seek", "list", "next", "restore"} \cup MemoryBusy
  /\ IF r.step = "idle" THEN r.op = "none" ELSE r.dirs \in Seq(Memory!Places) /\ r.dirs # <<>>
  /\ r.op \in {"none", "add", "update", "delete", "import", "restore"}
  /\ r.step \in {"list", "next"} => r.op = "import"
  /\ r.step = "read" => r.op \in {"add", "import"}
  /\ r.step = "seek" => r.op \in {"update", "delete"}
  /\ r.step = "restore" => r.op = "restore"
  /\ MemoryIsFile(r.copy) /\ (r.step \in MemoryBusy => r.copy.status # "absent")
  /\ r.imported \in Nat /\ r.added \in Nat

MemoryTyped ==
  /\ DOMAIN notes = Memory!Places /\ \A s \in Memory!Places : MemoryIsFile(notes[s])
  /\ DOMAIN bundle = Memory!Places /\ \A s \in Memory!Places : MemoryIsFile(bundle[s])
  /\ DOMAIN markdown = Memory!Places
  /\ DOMAIN work = Scribes /\ \A w \in Scribes : MemoryIsJob(work[w])
  /\ DOMAIN memories = {"live", "risk", "updated", "stale", "miscounted"}
  /\ DOMAIN memories.live = Memory!Places
  /\ ids \in Nat

(* An id is handed out once.                                                 *)
MemoryBelow(entries, n) == \A e \in entries : e.id \in Nat /\ e.id <= n

MemoryNumbered ==
  /\ \A s \in Memory!Places : MemoryBelow(notes[s].entries, ids) /\ MemoryBelow(bundle[s].entries, ids)
  /\ \A w \in Scribes : MemoryBelow(work[w].copy.entries, ids)

(* What is in one set of entries and not in the other is of these ids.       *)
MemoryUpTo(some, others, which) == \A e \in (some \ others) \cup (others \ some) : e.id \in which

(* A file, and what a copy will be when it is written, are as promised.      *)
MemoryHeld ==
  /\ \A s \in Memory!Places :
       /\ notes[s].status = "absent" => memories.live[s] = {}
       /\ notes[s].status = "whole" => MemoryUpTo(notes[s].entries, memories.live[s], memories.risk)
  /\ \A w \in Scribes : work[w].step \in MemoryAtWork =>
       MemoryUpTo(work[w].copy.entries, Memory!Promised(work[w], memories.live[Memory!Scope(w)]), memories.risk)

(* Operations that overlap put each other's entries at risk.                 *)
MemoryContested ==
  \A v, w \in Scribes :
    /\ v # w /\ work[v].step \in MemoryAtWork /\ work[w].step \in MemoryAtWork
    /\ Memory!Scope(v) = Memory!Scope(w)
    => Memory!Touched(v, Memory!Scope(v)) \subseteq memories.risk

MemorySingle(entries, but) ==
  \A e, f \in entries : e.text = f.text => e = f \/ {e.id, f.id} \cap but # {}

MemoryTwinless ==
  LET but == memories.updated \cup memories.risk
  IN  /\ \A s \in Memory!Places : MemorySingle(notes[s].entries, but) /\ MemorySingle(bundle[s].entries, but)
      /\ \A w \in Scribes : work[w].step \in MemoryAtWork =>
           MemorySingle(work[w].copy.entries, but \cup (IF work[w].op = "update" THEN {work[w].id} ELSE {}))

(* An import that nobody disturbed knows what is there, and has added what   *)
(* it says, but for the candidate it is about to add.                        *)
MemoryKnows(known, entries) == \A e \in entries : e.text \in known

MemoryCounts(r) ==
  /\ r.imported = IF r.step = "read" THEN r.added + 1 ELSE r.added
  /\ r.step # "list" => MemoryKnows(r.known, notes[Head(r.dirs)].entries)
  /\ r.step = "read" =>
       /\ r.text \notin Secrets /\ r.text \in r.known
       /\ \A e \in notes[Head(r.dirs)].entries : e.text # r.text
  /\ r.step \in MemoryAtWork => MemoryKnows(r.known, r.copy.entries)

MemoryCounted ==
  /\ memories.miscounted = FALSE
  /\ \A w \in Scribes : work[w].op = "import" /\ work[w].alone => MemoryCounts(work[w])

(* Where nothing has gone wrong with the Markdown, one writer at most is at  *)
(* it, and it shows the entries until that writer has written others.        *)
MemoryShown ==
  \A s \in Memory!Places \ memories.stale :
    /\ \A v, w \in Scribes :
         /\ v # w /\ work[v].step \in MemoryBusy /\ work[w].step \in MemoryBusy
         => ~(Memory!Scope(v) = s /\ Memory!Scope(w) = s)
    /\ \A w \in Scribes : work[w].step = "markdown" /\ Memory!Scope(w) = s /\ notes[s].status = "whole" =>
         notes[s].entries = work[w].copy.entries
    /\ /\ notes[s].status = "whole"
       /\ \A w \in Scribes : work[w].step \in {"fill", "markdown"} => Memory!Scope(w) # s
       => markdown[s] = notes[s].entries

MemoryIInv ==
  /\ MemoryTyped /\ MemoryNumbered /\ MemoryHeld /\ MemoryContested /\ MemoryTwinless /\ MemoryCounted
  /\ MemoryShown

-----------------------------------------------------------------------------
(* A writer takes another job.                                               *)

LEMMA MemoryPlaced ==
  /\ Scopes \in Seq(Memory!Places) /\ Scopes # <<>>
  /\ \A s \in Memory!Places : <<s>> \in Seq(Memory!Places) /\ <<s>> # <<>> /\ Head(<<s>>) = s
<1>1. Memory!Places = {Scopes[i] : i \in 1 .. Len(Scopes)}
  BY PlatformAssumption DEF Memory!Places, Memory!Range
<1>2. Scopes \in Seq(Memory!Places) /\ Scopes # <<>>
  BY <1>1, PlatformAssumption
<1>3. ASSUME NEW s \in Memory!Places PROVE <<s>> \in Seq(Memory!Places) /\ <<s>> # <<>> /\ Head(<<s>>) = s
  OBVIOUS
<1> QED BY <1>2, <1>3

LEMMA MemoryRests ==
  /\ MemoryIsJob(Memory!Rest) /\ Memory!Rest.step = "idle" /\ Memory!Rest.op = "none"
  /\ Memory!Rest.copy.entries = {} /\ Memory!Rest.alone = TRUE
<1>1. Memory!Rest.copy = Memory!Absent
  BY DEF Memory!Rest
<1>2. MemoryIsFile(Memory!Absent) /\ Memory!Absent.entries = {}
  BY DEF Memory!Absent, MemoryIsFile
<1> QED BY <1>1, <1>2 DEF Memory!Rest, MemoryIsJob, MemoryBusy

LEMMA MemoryReplaced ==
  ASSUME MemoryTyped, NEW w \in Scribes, NEW j, work' = [work EXCEPT ![w] = j]
  PROVE  DOMAIN work' = Scribes /\ \A v \in Scribes : work'[v] = IF v = w THEN j ELSE work[v]
BY DEF MemoryTyped

(* Nothing of the memory changes but what is said of it.                     *)
MemoryFilesStay == UNCHANGED <<notes, bundle, ids>> /\ DOMAIN markdown' = Memory!Places

MemoryHistoryStays ==
  /\ DOMAIN memories' = DOMAIN memories
  /\ memories'.live = memories.live /\ memories'.risk = memories.risk /\ memories'.updated = memories.updated
  /\ memories'.miscounted = FALSE

(* A writer that holds no copy afterwards.                                   *)
MemoryLeaves(w, j) ==
  /\ work' = [work EXCEPT ![w] = j]
  /\ MemoryIsJob(j) /\ j.step \notin MemoryAtWork /\ MemoryBelow(j.copy.entries, ids)
  /\ j.op = "import" /\ j.alone => MemoryCounts(j)

LEMMA MemoryLeaveKeeps ==
  ASSUME MemoryIInv, NEW w \in Scribes, NEW j, MemoryLeaves(w, j), MemoryFilesStay, MemoryHistoryStays
  PROVE  MemoryTyped' /\ MemoryNumbered' /\ MemoryHeld' /\ MemoryContested' /\ MemoryTwinless' /\ MemoryCounted'
<1>1. DOMAIN work' = Scribes /\ \A v \in Scribes : work'[v] = IF v = w THEN j ELSE work[v]
  BY MemoryReplaced DEF MemoryIInv, MemoryLeaves
<1>2. /\ UNCHANGED <<notes, bundle, ids>> /\ DOMAIN markdown' = Memory!Places
      /\ DOMAIN memories' = DOMAIN memories
      /\ memories'.live = memories.live /\ memories'.risk = memories.risk /\ memories'.updated = memories.updated
      /\ memories'.miscounted = FALSE
  BY DEF MemoryFilesStay, MemoryHistoryStays
<1>3. /\ MemoryIsJob(j) /\ j.step \notin MemoryAtWork /\ MemoryBelow(j.copy.entries, ids)
      /\ j.op = "import" /\ j.alone => MemoryCounts(j)
  BY DEF MemoryLeaves
<1>4. \A v \in Scribes : work'[v].step \in MemoryAtWork => work'[v] = work[v]
  BY <1>1, <1>3
<1>5. MemoryTyped'
  BY <1>1, <1>2, <1>3 DEF MemoryIInv, MemoryTyped
<1>6. MemoryNumbered'
  BY <1>1, <1>2, <1>3 DEF MemoryIInv, MemoryNumbered
<1>7. MemoryHeld'
  BY <1>2, <1>4 DEF MemoryIInv, MemoryHeld, Memory!Scope
<1>8. MemoryContested'
  BY <1>2, <1>4 DEF MemoryIInv, MemoryContested, Memory!Scope, Memory!Touched
<1>9. MemoryTwinless'
  BY <1>2, <1>4 DEF MemoryIInv, MemoryTwinless
<1>10. MemoryCounted'
  <2>1. \A v \in Scribes : work'[v].op = "import" /\ work'[v].alone => MemoryCounts(work'[v])
    BY <1>1, <1>3 DEF MemoryIInv, MemoryCounted
  <2>2. \A r : MemoryCounts(r)' <=> MemoryCounts(r)
    BY <1>2 DEF MemoryCounts
  <2> QED BY <1>2, <2>1, <2>2 DEF MemoryCounted, MemoryCounts
<1> QED BY <1>5, <1>6, <1>7, <1>8, <1>9, <1>10

(* It was not busy either, and the Markdown is left alone.                   *)
LEMMA MemoryAsideKeeps ==
  ASSUME MemoryIInv, NEW w \in Scribes, NEW j, MemoryLeaves(w, j), MemoryFilesStay, MemoryHistoryStays,
         work[w].step \notin MemoryBusy, j.step \notin MemoryBusy, UNCHANGED markdown,
         memories'.stale = memories.stale
  PROVE  MemoryIInv'
<1>1. \A v \in Scribes : work'[v] = IF v = w THEN j ELSE work[v]
  BY MemoryReplaced DEF MemoryIInv, MemoryLeaves
<1>2. \A v \in Scribes : work'[v].step \in MemoryBusy => work'[v] = work[v]
  BY <1>1
<1>3. \A v \in Scribes : work[v].step \in MemoryBusy => work'[v] = work[v]
  BY <1>1
<1>4. MemoryShown'
  BY <1>2, <1>3 DEF MemoryIInv, MemoryShown, MemoryFilesStay, MemoryBusy, Memory!Scope
<1> QED BY <1>4, MemoryLeaveKeeps DEF MemoryIInv

-----------------------------------------------------------------------------
(* The steps that hold no copy.                                              *)

(* A writer that was at rest begins an operation.                            *)
MemoryBegins(w, j) ==
  /\ work' = [work EXCEPT ![w] = j] /\ MemoryIsJob(j)
  /\ j.step \notin MemoryBusy /\ j.copy.entries = {} /\ j.imported = 0 /\ j.added = 0
  /\ j.op = "import" => j.step = "list"

LEMMA MemoryRestIs ==
  /\ DOMAIN Memory!Rest =
       {"op", "step", "dirs", "text", "id", "copy", "left", "known", "imported", "added", "alone"}
  /\ Memory!Rest.imported = 0 /\ Memory!Rest.added = 0
  /\ MemoryIsFile(Memory!Rest.copy) /\ Memory!Rest.copy.entries = {}
<1>1. MemoryIsFile(Memory!Rest.copy)
  BY MemoryRests DEF MemoryIsJob
<1> QED BY <1>1, MemoryRests DEF Memory!Rest

LEMMA MemoryWrites ==
  ASSUME NEW w, NEW s \in Memory!Places, NEW t, Memory!Write(w, s, t)
  PROVE  \E j : MemoryBegins(w, j)
<1> DEFINE rest == Memory!Rest
<1> HIDE DEF rest
<1> DEFINE j == [rest EXCEPT !.op = "add", !.step = "read", !.dirs = <<s>>, !.text = t]
<1>1. work' = [work EXCEPT ![w] = j]
  BY DEF Memory!Write, rest
<1>2. /\ DOMAIN j = DOMAIN rest /\ j.op = "add" /\ j.step = "read" /\ j.dirs = <<s>>
      /\ j.copy = rest.copy /\ j.imported = rest.imported /\ j.added = rest.added
  BY MemoryRestIs DEF rest
<1> HIDE DEF j
<1>3. MemoryBegins(w, j)
  BY <1>1, <1>2, MemoryRestIs, MemoryPlaced DEF rest, MemoryBegins, MemoryIsJob, MemoryBusy
<1> QED BY <1>3

LEMMA MemoryChanges ==
  ASSUME NEW w, NEW op \in {"update", "delete"}, NEW n, NEW t, Memory!Change(w, op, n, t)
  PROVE  \E j : MemoryBegins(w, j)
<1> DEFINE rest == Memory!Rest
<1> HIDE DEF rest
<1> DEFINE j == [rest EXCEPT !.op = op, !.step = "seek", !.dirs = Scopes, !.text = t, !.id = n]
<1>1. work' = [work EXCEPT ![w] = j]
  BY DEF Memory!Change, rest
<1>2. /\ DOMAIN j = DOMAIN rest /\ j.op = op /\ j.step = "seek" /\ j.dirs = Scopes
      /\ j.copy = rest.copy /\ j.imported = rest.imported /\ j.added = rest.added
  BY MemoryRestIs DEF rest
<1> HIDE DEF j
<1>3. MemoryBegins(w, j)
  BY <1>1, <1>2, MemoryRestIs, MemoryPlaced DEF rest, MemoryBegins, MemoryIsJob, MemoryBusy
<1> QED BY <1>3

LEMMA MemoryImports ==
  ASSUME NEW w, NEW s \in Memory!Places, NEW c, Memory!Import(w, s, c)
  PROVE  \E j : MemoryBegins(w, j)
<1> DEFINE rest == Memory!Rest
<1> HIDE DEF rest
<1> DEFINE j == [rest EXCEPT !.op = "import", !.step = "list", !.dirs = <<s>>, !.left = c]
<1>1. work' = [work EXCEPT ![w] = j]
  BY DEF Memory!Import, rest
<1>2. /\ DOMAIN j = DOMAIN rest /\ j.op = "import" /\ j.step = "list" /\ j.dirs = <<s>>
      /\ j.copy = rest.copy /\ j.imported = rest.imported /\ j.added = rest.added
  BY MemoryRestIs DEF rest
<1> HIDE DEF j
<1>3. MemoryBegins(w, j)
  BY <1>1, <1>2, MemoryRestIs, MemoryPlaced DEF rest, MemoryBegins, MemoryIsJob, MemoryBusy
<1> QED BY <1>3

LEMMA MemoryRestores ==
  ASSUME NEW w, Memory!Restore(w)
  PROVE  \E j : MemoryBegins(w, j)
<1> DEFINE rest == Memory!Rest
<1> HIDE DEF rest
<1> DEFINE j == [rest EXCEPT !.op = "restore", !.step = "restore", !.dirs = Scopes]
<1>1. work' = [work EXCEPT ![w] = j]
  BY DEF Memory!Restore, rest
<1>2. /\ DOMAIN j = DOMAIN rest /\ j.op = "restore" /\ j.step = "restore" /\ j.dirs = Scopes
      /\ j.copy = rest.copy /\ j.imported = rest.imported /\ j.added = rest.added
  BY MemoryRestIs DEF rest
<1> HIDE DEF j
<1>3. MemoryBegins(w, j)
  BY <1>1, <1>2, MemoryRestIs, MemoryPlaced DEF rest, MemoryBegins, MemoryIsJob, MemoryBusy
<1> QED BY <1>3

LEMMA MemoryBeginKeeps ==
  ASSUME MemoryIInv, NEW w \in Scribes,
         \/ \E s \in Memory!Places : \E t : Memory!Write(w, s, t)
         \/ \E op \in {"update", "delete"} : \E n, t : Memory!Change(w, op, n, t)
         \/ \E s \in Memory!Places : \E c : Memory!Import(w, s, c)
         \/ Memory!Restore(w)
  PROVE  MemoryIInv'
<1>1. work[w].step = "idle" /\ UNCHANGED <<notes, markdown, bundle, ids, memories>>
  BY DEF Memory!Write, Memory!Change, Memory!Import, Memory!Restore, Memory!Begin
<1>2. MemoryFilesStay /\ MemoryHistoryStays
  BY <1>1 DEF MemoryFilesStay, MemoryHistoryStays, MemoryIInv, MemoryTyped, MemoryCounted
<1>3. PICK j : MemoryBegins(w, j)
  BY MemoryWrites, MemoryChanges, MemoryImports, MemoryRestores
<1>4. MemoryLeaves(w, j) /\ j.step \notin MemoryBusy
  <2>1. j.op = "import" => MemoryCounts(j)
    BY <1>3 DEF MemoryBegins, MemoryCounts, MemoryAtWork
  <2> QED BY <1>3, <2>1 DEF MemoryBegins, MemoryLeaves, MemoryAtWork, MemoryBusy, MemoryBelow
<1> QED BY <1>1, <1>2, <1>4, MemoryAsideKeeps DEF MemoryBusy

LEMMA MemoryListKeeps ==
  ASSUME MemoryIInv, NEW w \in Scribes, Memory!List(w)
  PROVE  MemoryIInv'
<1> DEFINE r == work[w]
           found == {e.text : e \in notes[Head(r.dirs)].entries}
           j == [r EXCEPT !.step = "next", !.known = found]
<1>1. /\ r.step = "list" /\ UNCHANGED <<notes, markdown, bundle, ids, memories>>
      /\ work' = [work EXCEPT ![w] = j]
  BY DEF Memory!List, Memory!ReadEntries, Memory!Scope
<1>2. MemoryFilesStay /\ MemoryHistoryStays
  BY <1>1 DEF MemoryFilesStay, MemoryHistoryStays, MemoryIInv, MemoryTyped, MemoryCounted
<1>3. MemoryIsJob(r) /\ MemoryBelow(r.copy.entries, ids) /\ (r.op = "import" /\ r.alone => MemoryCounts(r))
  BY DEF MemoryIInv, MemoryTyped, MemoryNumbered, MemoryCounted
<1>4. MemoryKnows(found, notes[Head(r.dirs)].entries)
  BY DEF MemoryKnows
<1> HIDE DEF r, found
<1>5. /\ DOMAIN j = DOMAIN r /\ j.op = r.op /\ j.step = "next" /\ j.dirs = r.dirs /\ j.copy = r.copy
      /\ j.imported = r.imported /\ j.added = r.added /\ j.known = found
  BY <1>3 DEF MemoryIsJob
<1>6. j.alone = r.alone
  BY <1>3 DEF MemoryIsJob
<1> HIDE DEF j
<1>7. MemoryIsJob(j)
  BY <1>1, <1>3, <1>5 DEF MemoryIsJob, MemoryBusy
<1>8. j.op = "import" /\ j.alone => MemoryCounts(j)
  BY <1>1, <1>3, <1>4, <1>5, <1>6 DEF MemoryCounts, MemoryAtWork
<1>9. MemoryLeaves(w, j) /\ j.step \notin MemoryBusy
  BY <1>1, <1>3, <1>5, <1>7, <1>8 DEF MemoryLeaves, MemoryAtWork, MemoryBusy
<1> QED BY <1>1, <1>2, <1>9, MemoryAsideKeeps DEF MemoryBusy, r

(* The next candidate of an import.                                          *)
LEMMA MemoryCandidateLeaves ==
  ASSUME MemoryIInv, NEW w \in Scribes, Memory!NextCandidate(w), work[w].left # <<>>
  PROVE  \E j : MemoryLeaves(w, j) /\ j.step \notin MemoryBusy
<1> DEFINE r == work[w]
           t == Head(r.left)
           now == [r EXCEPT !.left = Tail(@)]
           read == [now EXCEPT !.step = "read", !.text = t, !.known = @ \cup {t},
                               !.imported = @ + 1, !.alone = @ /\ t \notin Secrets]
<1>1. r.step = "next" /\ work' = [work EXCEPT ![w] = IF t \in r.known THEN now ELSE read]
  BY DEF Memory!NextCandidate
<1>2. MemoryIsJob(r) /\ MemoryBelow(r.copy.entries, ids) /\ (r.op = "import" /\ r.alone => MemoryCounts(r))
  BY DEF MemoryIInv, MemoryTyped, MemoryNumbered, MemoryCounted
<1>3. r.op = "import" /\ r.dirs \in Seq(Memory!Places) /\ r.dirs # <<>>
  BY <1>1, <1>2 DEF MemoryIsJob
<1> HIDE DEF r, t
<1>4. /\ DOMAIN now = DOMAIN r /\ now.op = r.op /\ now.step = r.step /\ now.dirs = r.dirs /\ now.copy = r.copy
      /\ now.imported = r.imported /\ now.added = r.added /\ now.known = r.known
  BY <1>2 DEF MemoryIsJob
<1>5. now.alone = r.alone
  BY <1>2 DEF MemoryIsJob
<1> HIDE DEF now
<1>6. /\ DOMAIN read = DOMAIN r /\ read.op = r.op /\ read.step = "read" /\ read.dirs = r.dirs
      /\ read.copy = r.copy /\ read.imported = r.imported + 1 /\ read.added = r.added
      /\ read.known = r.known \cup {t} /\ read.text = t
  BY <1>2, <1>4 DEF MemoryIsJob
<1>7. read.alone => r.alone /\ t \notin Secrets
  BY <1>2, <1>4, <1>5 DEF MemoryIsJob
<1> HIDE DEF read
<1>8. CASE t \in r.known
  <2>1. MemoryIsJob(now)
    BY <1>2, <1>4 DEF MemoryIsJob
  <2>2. now.op = "import" /\ now.alone => MemoryCounts(now)
    BY <1>1, <1>2, <1>4, <1>5 DEF MemoryCounts, MemoryAtWork
  <2>3. MemoryLeaves(w, now) /\ now.step \notin MemoryBusy
    BY <1>1, <1>2, <1>4, <1>8, <2>1, <2>2 DEF MemoryLeaves, MemoryAtWork, MemoryBusy
  <2> QED BY <2>3
<1>9. CASE t \notin r.known
  <2>1. r.imported + 1 \in Nat
    BY <1>2 DEF MemoryIsJob
  <2>2. MemoryIsJob(read)
    BY <1>2, <1>3, <1>6, <2>1 DEF MemoryIsJob, MemoryBusy
  <2>3. ASSUME read.alone PROVE MemoryCounts(read)
    <3>1. MemoryCounts(r) /\ t \notin Secrets
      BY <1>2, <1>3, <1>7, <2>3
    <3>2. r.imported = r.added /\ MemoryKnows(r.known, notes[Head(r.dirs)].entries)
      BY <1>1, <3>1 DEF MemoryCounts
    <3>3. \A e \in notes[Head(r.dirs)].entries : e.text # t
      BY <1>9, <3>2 DEF MemoryKnows
    <3>4. MemoryKnows(read.known, notes[Head(r.dirs)].entries)
      BY <1>6, <3>2 DEF MemoryKnows
    <3> QED BY <1>6, <3>1, <3>2, <3>3, <3>4 DEF MemoryCounts, MemoryAtWork
  <2>4. MemoryLeaves(w, read) /\ read.step \notin MemoryBusy
    BY <1>1, <1>2, <1>6, <1>9, <2>2, <2>3 DEF MemoryLeaves, MemoryAtWork, MemoryBusy
  <2> QED BY <2>4
<1> QED BY <1>8, <1>9

LEMMA MemoryRestLeaves ==
  ASSUME NEW w, work' = [work EXCEPT ![w] = Memory!Rest]
  PROVE  MemoryLeaves(w, Memory!Rest) /\ Memory!Rest.step \notin MemoryBusy
BY MemoryRests DEF MemoryLeaves, MemoryAtWork, MemoryBusy, MemoryBelow

LEMMA MemoryCandidateKeeps ==
  ASSUME MemoryIInv, NEW w \in Scribes, Memory!NextCandidate(w)
  PROVE  MemoryIInv'
<1> DEFINE r == work[w]
<1>1. r.step = "next" /\ UNCHANGED <<notes, markdown, bundle, ids>>
  BY DEF Memory!NextCandidate
<1>2. MemoryFilesStay
  BY <1>1 DEF MemoryFilesStay, MemoryIInv, MemoryTyped
<1>3. DOMAIN memories = {"live", "risk", "updated", "stale", "miscounted"} /\ memories.miscounted = FALSE
  BY DEF MemoryIInv, MemoryTyped, MemoryCounted
<1>4. CASE r.left = <<>>
  <2>1. /\ work' = [work EXCEPT ![w] = Memory!Rest]
        /\ memories' = [memories EXCEPT !.miscounted = @ \/ (r.alone /\ r.imported # r.added)]
    BY <1>4 DEF Memory!NextCandidate
  <2>2. r.op = "import" /\ (r.alone => MemoryCounts(r))
    BY <1>1 DEF MemoryIInv, MemoryTyped, MemoryIsJob, MemoryCounted
  <2>3. ~(r.alone /\ r.imported # r.added)
    BY <1>1, <2>2 DEF MemoryCounts
  <2>4. memories'.miscounted = FALSE
    BY <1>3, <2>1, <2>3
  <2>5. /\ DOMAIN memories' = DOMAIN memories /\ memories'.live = memories.live /\ memories'.risk = memories.risk
        /\ memories'.updated = memories.updated /\ memories'.stale = memories.stale
    BY <1>3, <2>1
  <2>6. MemoryHistoryStays /\ memories'.stale = memories.stale
    BY <1>3, <2>4, <2>5 DEF MemoryHistoryStays
  <2> QED BY <1>1, <1>2, <2>1, <2>6, MemoryRestLeaves, MemoryAsideKeeps DEF MemoryBusy
<1>5. CASE r.left # <<>>
  <2>1. memories' = memories
    BY <1>5 DEF Memory!NextCandidate
  <2>2. MemoryHistoryStays /\ memories'.stale = memories.stale
    BY <1>3, <2>1 DEF MemoryHistoryStays
  <2> QED BY <1>1, <1>2, <1>5, <2>2, MemoryCandidateLeaves, MemoryAsideKeeps DEF MemoryBusy
<1> QED BY <1>4, <1>5

(* What comes after one entry.                                               *)
LEMMA MemoryAfter ==
  ASSUME NEW r, MemoryIsJob(r), r.step # "idle"
  PROVE  LET j == Memory!After(r)
         IN  /\ MemoryIsJob(j) /\ j.step \in {"idle", "next"}
             /\ j.copy.entries = r.copy.entries \/ j.copy.entries = {}
             /\ j.op = "import" =>
                  /\ r.op = "import" /\ j.dirs = r.dirs /\ j.copy = r.copy
                  /\ j.imported = r.imported /\ j.added = r.added /\ j.known = r.known
             /\ j.op = "import" /\ j.alone => r.alone
<1> DEFINE j == [r EXCEPT !.step = "next"]
<1>1. CASE r.op = "import"
  <2>1. Memory!After(r) = j
    BY <1>1 DEF Memory!After
  <2>2. /\ DOMAIN j = DOMAIN r /\ j.op = r.op /\ j.step = "next" /\ j.dirs = r.dirs /\ j.copy = r.copy
        /\ j.imported = r.imported /\ j.added = r.added /\ j.known = r.known
    BY DEF MemoryIsJob
  <2>3. j.alone = r.alone
    BY DEF MemoryIsJob
  <2> HIDE DEF j
  <2>4. MemoryIsJob(j)
    BY <1>1, <2>2 DEF MemoryIsJob, MemoryBusy
  <2> QED BY <1>1, <2>1, <2>2, <2>3, <2>4
<1>2. CASE r.op # "import"
  BY <1>2, MemoryRests DEF Memory!After
<1> QED BY <1>1, <1>2

(* A duplicate is returned as if it had been added.                          *)
LEMMA MemoryDuplicateKeeps ==
  ASSUME MemoryIInv, NEW w \in Scribes, Memory!Read(w),
         \E e \in notes[Head(work[w].dirs)].entries : Memory!Same(e, work[w].text)
  PROVE  MemoryIInv'
<1> DEFINE r == work[w]
           j == Memory!After(r)
<1>1. /\ r.step = "read" /\ work' = [work EXCEPT ![w] = j]
      /\ UNCHANGED <<notes, markdown, bundle, ids, memories>>
  BY DEF Memory!Read, Memory!ReadEntries, Memory!Scope
<1>2. MemoryFilesStay /\ MemoryHistoryStays
  BY <1>1 DEF MemoryFilesStay, MemoryHistoryStays, MemoryIInv, MemoryTyped, MemoryCounted
<1>3. MemoryIsJob(r) /\ MemoryBelow(r.copy.entries, ids) /\ (r.op = "import" /\ r.alone => MemoryCounts(r))
  BY DEF MemoryIInv, MemoryTyped, MemoryNumbered, MemoryCounted
<1>4. ~(r.op = "import" /\ r.alone)
  BY <1>1, <1>3 DEF MemoryCounts, Memory!Same, Memory!Stored
<1>5. /\ MemoryIsJob(j) /\ j.step \in {"idle", "next"}
      /\ j.copy.entries = r.copy.entries \/ j.copy.entries = {}
      /\ ~(j.op = "import" /\ j.alone)
  BY <1>1, <1>3, <1>4, MemoryAfter
<1> HIDE DEF j
<1>6. MemoryLeaves(w, j) /\ j.step \notin MemoryBusy
  BY <1>1, <1>3, <1>5 DEF MemoryLeaves, MemoryAtWork, MemoryBusy, MemoryBelow
<1> QED BY <1>1, <1>2, <1>6, MemoryAsideKeeps DEF MemoryBusy

(* The next directory, or the end.                                           *)
LEMMA MemoryTails ==
  ASSUME NEW S, NEW q \in Seq(S), q # <<>>
  PROVE  /\ Len(q) # 1 => Tail(q) \in Seq(S) /\ Tail(q) # <<>>
         /\ Len(q) > 1 => Len(q) # 1
<1>1. PICK n : n = Len(q)
  OBVIOUS
<1>2. n \in Nat /\ n # 0 /\ (n > 1 => n # 1)
  BY <1>1
<1>3. Tail(q) \in Seq(S) /\ Len(Tail(q)) = n - 1
  BY <1>1
<1>4. ASSUME n # 1, Tail(q) = <<>> PROVE FALSE
  <2>1. n - 1 # 0
    BY <1>2, <1>4
  <2>2. Len(Tail(q)) = 0
    BY <1>3, <1>4
  <2> QED BY <1>3, <2>1, <2>2
<1> QED BY <1>1, <1>2, <1>3, <1>4

LEMMA MemoryOnward ==
  ASSUME NEW r, MemoryIsJob(r), r.step # "idle", Len(r.dirs) # 1,
         NEW j, j = [r EXCEPT !.dirs = Tail(@)]
  PROVE  /\ MemoryIsJob(j) /\ j.step = r.step /\ j.op = r.op /\ j.copy = r.copy
         /\ j.imported = r.imported /\ j.added = r.added
<1>1. Tail(r.dirs) \in Seq(Memory!Places) /\ Tail(r.dirs) # <<>>
  <2>1. r.dirs \in Seq(Memory!Places) /\ r.dirs # <<>>
    BY DEF MemoryIsJob
  <2> QED BY <2>1, MemoryTails
<1>2. /\ DOMAIN j = DOMAIN r /\ j.op = r.op /\ j.step = r.step /\ j.dirs = Tail(r.dirs) /\ j.copy = r.copy
      /\ j.imported = r.imported /\ j.added = r.added
  BY DEF MemoryIsJob
<1>3. MemoryIsJob(j)
  BY <1>1, <1>2 DEF MemoryIsJob, MemoryBusy
<1> QED BY <1>2, <1>3

LEMMA MemoryOnwardKeeps ==
  ASSUME MemoryIInv, NEW w \in Scribes, work[w].step \in {"seek", "restore"},
         work' = [work EXCEPT ![w] = IF Len(work[w].dirs) = 1 THEN Memory!Rest
                                     ELSE [work[w] EXCEPT !.dirs = Tail(@)]],
         UNCHANGED <<notes, markdown, bundle, ids, memories>>
  PROVE  MemoryIInv'
<1> DEFINE r == work[w]
           j == [r EXCEPT !.dirs = Tail(@)]
<1>1. MemoryFilesStay /\ MemoryHistoryStays
  BY DEF MemoryFilesStay, MemoryHistoryStays, MemoryIInv, MemoryTyped, MemoryCounted
<1>2. MemoryIsJob(r) /\ MemoryBelow(r.copy.entries, ids)
  BY DEF MemoryIInv, MemoryTyped, MemoryNumbered
<1>3. CASE Len(r.dirs) = 1
  BY <1>1, <1>3, MemoryRestLeaves, MemoryAsideKeeps DEF MemoryBusy
<1>4. CASE Len(r.dirs) # 1
  <2>1. /\ MemoryIsJob(j) /\ j.step = r.step /\ j.op = r.op /\ j.copy = r.copy
    BY <1>2, <1>4, MemoryOnward
  <2>2. work' = [work EXCEPT ![w] = j]
    BY <1>4
  <2> HIDE DEF j
  <2>3. j.op # "import"
    BY <1>2, <2>1 DEF MemoryIsJob
  <2>4. MemoryLeaves(w, j) /\ j.step \notin MemoryBusy
    BY <1>2, <2>1, <2>2, <2>3 DEF MemoryLeaves, MemoryAtWork, MemoryBusy
  <2> QED BY <1>1, <2>4, MemoryAsideKeeps DEF MemoryBusy
<1> QED BY <1>3, <1>4

-----------------------------------------------------------------------------
(* A writer comes to hold a copy.                                            *)

LEMMA MemoryBelowGrows ==
  ASSUME NEW E, NEW m \in Nat, NEW n \in Nat, m <= n, MemoryBelow(E, m) PROVE MemoryBelow(E, n)
BY DEF MemoryBelow

LEMMA MemoryUpToGrows ==
  ASSUME NEW E, NEW F, NEW R, NEW S, R \subseteq S, MemoryUpTo(E, F, R) PROVE MemoryUpTo(E, F, S)
BY DEF MemoryUpTo

LEMMA MemorySingleGrows ==
  ASSUME NEW E, NEW R, NEW S, R \subseteq S, MemorySingle(E, R) PROVE MemorySingle(E, S)
BY DEF MemorySingle

(* What that costs.                                                          *)
MemoryMine(r, s) ==
  IF r.op = "restore" THEN Memory!IdsOf(r.copy.entries) \cup Memory!IdsOf(memories.live[s]) ELSE {r.id}

MemoryCosts(w, r, s) ==
  /\ DOMAIN memories' = DOMAIN memories
  /\ memories'.live = memories.live /\ memories'.updated = memories.updated
  /\ memories'.miscounted = memories.miscounted
  /\ memories.risk \subseteq memories'.risk
  /\ notes[s].status = "torn" /\ r.op # "restore" => Memory!IdsOf(memories.live[s]) \subseteq memories'.risk
  /\ \A v \in Memory!Holders(w, s) :
       MemoryMine(r, s) \subseteq memories'.risk /\ Memory!Touched(v, s) \subseteq memories'.risk
  /\ memories.stale \subseteq memories'.stale /\ memories'.stale \subseteq memories.stale \cup {s}
  /\ s \notin memories'.stale => Memory!Holders(w, s) \cup Memory!Owing(w, s) = {}

LEMMA MemoryHoldCosts ==
  ASSUME MemoryTyped, NEW w, NEW r, Memory!Hold(w, r)
  PROVE  work' = [work EXCEPT ![w] = [r EXCEPT !.step = "truncate"]] /\ MemoryCosts(w, r, Head(r.dirs))
<1> DEFINE s == Head(r.dirs)
           others == Memory!Holders(w, s)
           owing == Memory!Owing(w, s)
           mine == MemoryMine(r, s)
           unread == IF notes[s].status = "torn" /\ r.op # "restore" THEN Memory!IdsOf(memories.live[s]) ELSE {}
           theirs == IF others = {} THEN {} ELSE mine \cup UNION {Memory!Touched(v, s) : v \in others}
           old == IF others \cup owing = {} THEN {} ELSE {s}
<1>1. /\ work' = [work EXCEPT ![w] = [r EXCEPT !.step = "truncate"]]
      /\ memories' = [memories EXCEPT !.risk = @ \cup theirs \cup unread,
                                      !.stale = IF others \cup owing = {} THEN @ ELSE @ \cup {s}]
  BY DEF Memory!Hold, MemoryMine
<1>2. DOMAIN memories = {"live", "risk", "updated", "stale", "miscounted"}
  BY DEF MemoryTyped
<1> HIDE DEF s, others, owing, mine, unread, theirs
<1>3. /\ DOMAIN memories' = DOMAIN memories
      /\ memories'.live = memories.live /\ memories'.updated = memories.updated
      /\ memories'.risk = memories.risk \cup theirs \cup unread
      /\ memories'.stale = IF others \cup owing = {} THEN memories.stale ELSE memories.stale \cup {s}
  BY <1>1, <1>2
<1>4. memories'.miscounted = memories.miscounted
  BY <1>1, <1>2
<1>5. memories.risk \subseteq memories'.risk
  BY <1>3
<1>6. notes[s].status = "torn" /\ r.op # "restore" => Memory!IdsOf(memories.live[s]) \subseteq memories'.risk
  BY <1>3 DEF unread
<1>7. \A v \in others : mine \subseteq memories'.risk /\ Memory!Touched(v, s) \subseteq memories'.risk
  BY <1>3 DEF theirs
<1>8. memories.stale \subseteq memories'.stale /\ memories'.stale \subseteq memories.stale \cup {s}
  BY <1>3
<1>9. s \notin memories'.stale => others \cup owing = {}
  BY <1>3
<1>10. MemoryCosts(w, r, s)
  BY <1>3, <1>4, <1>5, <1>6, <1>7, <1>8, <1>9 DEF MemoryCosts, others, owing, mine
<1> QED BY <1>1, <1>10 DEF s

(* The copy it holds is what the operation promises, but for what is at      *)
(* risk; in it no content is there twice.                                    *)
MemoryHolds(w, r) ==
  LET s == Head(r.dirs)
  IN  /\ MemoryIsJob(r) /\ r.step # "idle" /\ r.copy.status # "absent"
      /\ MemoryBelow(r.copy.entries, ids')
      /\ MemoryUpTo(r.copy.entries, Memory!Promised(r, memories.live[s]), memories'.risk)
      /\ MemorySingle(r.copy.entries, memories.updated \cup memories'.risk
                                        \cup (IF r.op = "update" THEN {r.id} ELSE {}))
      /\ r.op = "import" /\ r.alone =>
           /\ r.imported = r.added
           /\ MemoryKnows(r.known, notes[s].entries) /\ MemoryKnows(r.known, r.copy.entries)

LEMMA MemoryHoldKeeps ==
  ASSUME MemoryIInv, NEW w \in Scribes, NEW r, Memory!Hold(w, r), MemoryHolds(w, r),
         work[w].step \notin MemoryBusy, UNCHANGED <<notes, markdown, bundle>>, ids' \in Nat, ids <= ids'
  PROVE  MemoryIInv'
<1> DEFINE s == Head(r.dirs)
           j == [r EXCEPT !.step = "truncate"]
<1>1. MemoryTyped /\ ids \in Nat
  BY DEF MemoryIInv, MemoryTyped
<1>2. work' = [work EXCEPT ![w] = j] /\ MemoryCosts(w, r, s)
  BY <1>1, MemoryHoldCosts
<1>3. MemoryIsJob(r) /\ r.step # "idle" /\ r.copy.status # "absent"
  BY DEF MemoryHolds
<1>4. /\ DOMAIN j = DOMAIN r /\ j.op = r.op /\ j.step = "truncate" /\ j.dirs = r.dirs /\ j.copy = r.copy
      /\ j.imported = r.imported /\ j.added = r.added /\ j.known = r.known /\ j.id = r.id /\ j.text = r.text
  BY <1>3 DEF MemoryIsJob
<1>5. j.alone = r.alone
  BY <1>3 DEF MemoryIsJob
<1> HIDE DEF j, s
<1>6. DOMAIN work' = Scribes /\ \A v \in Scribes : work'[v] = IF v = w THEN j ELSE work[v]
  BY <1>1, <1>2, MemoryReplaced
<1>7. Memory!Scope(w)' = s /\ \A v \in Scribes \ {w} : Memory!Scope(v)' = Memory!Scope(v)
  BY <1>4, <1>6 DEF Memory!Scope, s
<1>8. /\ memories'.live = memories.live /\ memories'.updated = memories.updated
      /\ memories'.miscounted = memories.miscounted /\ memories.risk \subseteq memories'.risk
      /\ DOMAIN memories' = DOMAIN memories
  BY <1>2 DEF MemoryCosts
<1>9. MemoryIsJob(j)
  BY <1>3, <1>4 DEF MemoryIsJob, MemoryBusy
<1>10. MemoryTyped'
  BY <1>6, <1>8, <1>9, <1>1 DEF MemoryTyped
<1>11. MemoryNumbered'
  <2>1. \A E : MemoryBelow(E, ids) => MemoryBelow(E, ids')
    BY <1>1, MemoryBelowGrows
  <2>2. MemoryBelow(j.copy.entries, ids')
    BY <1>4 DEF MemoryHolds
  <2> QED BY <1>6, <2>1, <2>2 DEF MemoryIInv, MemoryNumbered
<1>12. MemoryHeld'
  <2>1. \A E, F : MemoryUpTo(E, F, memories.risk) => MemoryUpTo(E, F, memories'.risk)
    BY <1>8, MemoryUpToGrows
  <2>2. MemoryUpTo(j.copy.entries, Memory!Promised(j, memories.live[s]), memories'.risk)
    BY <1>4 DEF MemoryHolds, Memory!Promised, s
  <2>3. ASSUME NEW v \in Scribes, work'[v].step \in MemoryAtWork
        PROVE  MemoryUpTo(work'[v].copy.entries, Memory!Promised(work'[v], memories'.live[Memory!Scope(v)']),
                          memories'.risk)
    <3>1. CASE v = w
      BY <1>6, <1>7, <1>8, <2>2, <3>1
    <3>2. CASE v # w
      BY <1>6, <1>7, <1>8, <2>1, <2>3, <3>2 DEF MemoryIInv, MemoryHeld
    <3> QED BY <3>1, <3>2
  <2>4. \A q \in Memory!Places :
          /\ notes'[q].status = "absent" => memories'.live[q] = {}
          /\ notes'[q].status = "whole" => MemoryUpTo(notes'[q].entries, memories'.live[q], memories'.risk)
    BY <1>8, <2>1 DEF MemoryIInv, MemoryHeld
  <2> QED BY <2>3, <2>4 DEF MemoryHeld, Memory!Promised
<1>13. MemoryContested'
  <2> SUFFICES ASSUME NEW v \in Scribes, NEW x \in Scribes, v # x, work'[v].step \in MemoryAtWork,
                      work'[x].step \in MemoryAtWork, Memory!Scope(v)' = Memory!Scope(x)'
               PROVE  Memory!Touched(v, Memory!Scope(v))' \subseteq memories'.risk
    BY DEF MemoryContested
  <2>1. CASE v = w
    <3>1. x \in Memory!Holders(w, s)
      BY <1>6, <1>7, <2>1 DEF Memory!Holders, MemoryAtWork
    <3>2. MemoryMine(r, s) \subseteq memories'.risk
      BY <1>2, <3>1 DEF MemoryCosts
    <3>3. Memory!Touched(v, Memory!Scope(v))' = MemoryMine(r, s)
      BY <1>4, <1>6, <1>7, <1>8, <2>1 DEF Memory!Touched, MemoryMine
    <3> QED BY <3>2, <3>3
  <2>2. CASE v # w /\ x = w
    <3>1. v \in Memory!Holders(w, s) /\ Memory!Scope(v) = s
      BY <1>6, <1>7, <2>2 DEF Memory!Holders, MemoryAtWork
    <3>2. Memory!Touched(v, s) \subseteq memories'.risk
      BY <1>2, <3>1 DEF MemoryCosts
    <3>3. Memory!Touched(v, Memory!Scope(v))' = Memory!Touched(v, s)
      BY <1>6, <1>7, <1>8, <2>2, <3>1 DEF Memory!Touched
    <3> QED BY <3>2, <3>3
  <2>3. CASE v # w /\ x # w
    <3>1. Memory!Touched(v, Memory!Scope(v)) \subseteq memories.risk
      BY <1>6, <1>7, <2>3 DEF MemoryIInv, MemoryContested
    <3>2. Memory!Touched(v, Memory!Scope(v))' = Memory!Touched(v, Memory!Scope(v))
      BY <1>6, <1>7, <1>8, <2>3 DEF Memory!Touched
    <3> QED BY <1>8, <3>1, <3>2
  <2> QED BY <2>1, <2>2, <2>3
<1>14. MemoryTwinless'
  <2> DEFINE but == memories.updated \cup memories.risk
             more == memories.updated \cup memories'.risk
             own(q) == IF q.op = "update" THEN {q.id} ELSE {}
  <2>1. \A E : MemorySingle(E, but) => MemorySingle(E, more)
    BY <1>8, MemorySingleGrows
  <2>2. \A E, q : MemorySingle(E, but \cup own(q)) => MemorySingle(E, more \cup own(q))
    BY <1>8, MemorySingleGrows
  <2>3. MemorySingle(j.copy.entries, more \cup own(j))
    BY <1>4 DEF MemoryHolds
  <2>4. \A q \in Memory!Places : MemorySingle(notes[q].entries, but) /\ MemorySingle(bundle[q].entries, but)
    BY DEF MemoryIInv, MemoryTwinless
  <2>5. \A v \in Scribes : work[v].step \in MemoryAtWork => MemorySingle(work[v].copy.entries, but \cup own(work[v]))
    BY DEF MemoryIInv, MemoryTwinless
  <2> HIDE DEF own
  <2>6. \A v \in Scribes : work'[v].step \in MemoryAtWork => MemorySingle(work'[v].copy.entries, more \cup own(work'[v]))
    BY <1>6, <2>2, <2>3, <2>5
  <2>7. \A q \in Memory!Places : MemorySingle(notes'[q].entries, more) /\ MemorySingle(bundle'[q].entries, more)
    BY <2>1, <2>4
  <2> QED BY <1>8, <2>6, <2>7 DEF MemoryTwinless, own
<1>15. MemoryCounted'
  <2>1. \A q : MemoryCounts(q)' <=> MemoryCounts(q)
    BY DEF MemoryCounts
  <2>2. j.op = "import" /\ j.alone => MemoryCounts(j)
    BY <1>4, <1>5 DEF MemoryCounts, MemoryHolds
  <2>3. \A v \in Scribes : work'[v].op = "import" /\ work'[v].alone => MemoryCounts(work'[v])
    BY <1>6, <2>2 DEF MemoryIInv, MemoryCounted
  <2> QED BY <1>8, <2>1, <2>3 DEF MemoryIInv, MemoryCounted, MemoryCounts
<1>16. MemoryShown'
  <2> SUFFICES ASSUME NEW q \in Memory!Places, q \notin memories'.stale
               PROVE  /\ \A v, x \in Scribes :
                           /\ v # x /\ work'[v].step \in MemoryBusy /\ work'[x].step \in MemoryBusy
                           => ~(Memory!Scope(v)' = q /\ Memory!Scope(x)' = q)
                      /\ \A v \in Scribes :
                           work'[v].step = "markdown" /\ Memory!Scope(v)' = q /\ notes'[q].status = "whole" =>
                             notes'[q].entries = work'[v].copy.entries
                      /\ /\ notes'[q].status = "whole"
                         /\ \A v \in Scribes : work'[v].step \in {"fill", "markdown"} => Memory!Scope(v)' # q
                         => markdown'[q] = notes'[q].entries
    BY DEF MemoryShown
  <2>1. q \notin memories.stale /\ (q = s => Memory!Holders(w, s) \cup Memory!Owing(w, s) = {})
    BY <1>2 DEF MemoryCosts
  <2>2. ASSUME NEW v \in Scribes \ {w}, work[v].step \in MemoryBusy PROVE ~(q = s /\ Memory!Scope(v) = s)
    BY <2>1, <2>2 DEF Memory!Holders, Memory!Owing, MemoryBusy
  <2>3. \A v, x \in Scribes :
          /\ v # x /\ work'[v].step \in MemoryBusy /\ work'[x].step \in MemoryBusy
          => ~(Memory!Scope(v)' = q /\ Memory!Scope(x)' = q)
    BY <1>6, <1>7, <2>1, <2>2 DEF MemoryIInv, MemoryShown
  <2>4. \A v \in Scribes :
          work'[v].step = "markdown" /\ Memory!Scope(v)' = q /\ notes'[q].status = "whole" =>
            notes'[q].entries = work'[v].copy.entries
    BY <1>4, <1>6, <1>7, <2>1 DEF MemoryIInv, MemoryShown
  <2>5. /\ notes'[q].status = "whole"
        /\ \A v \in Scribes : work'[v].step \in {"fill", "markdown"} => Memory!Scope(v)' # q
        => markdown'[q] = notes'[q].entries
    BY <1>6, <1>7, <2>1 DEF MemoryIInv, MemoryShown, MemoryBusy
  <2> QED BY <2>3, <2>4, <2>5
<1> QED BY <1>10, <1>11, <1>12, <1>13, <1>14, <1>15, <1>16 DEF MemoryIInv

(* What a writer has read is what should be there, but for what is at risk   *)
(* when it holds it.                                                         *)
LEMMA MemoryFound ==
  ASSUME MemoryIInv, NEW s \in Memory!Places, NEW w, NEW r, r.op # "restore", MemoryCosts(w, r, s)
  PROVE  /\ MemoryUpTo(notes[s].entries, memories.live[s], memories'.risk)
         /\ MemorySingle(notes[s].entries, memories.updated \cup memories'.risk)
         /\ MemoryBelow(notes[s].entries, ids)
<1>1. memories.risk \subseteq memories'.risk
  BY DEF MemoryCosts
<1>2. MemorySingle(notes[s].entries, memories.updated \cup memories'.risk)
  BY <1>1, MemorySingleGrows DEF MemoryIInv, MemoryTwinless
<1>3. MemoryBelow(notes[s].entries, ids)
  BY DEF MemoryIInv, MemoryNumbered
<1>4. MemoryIsFile(notes[s])
  BY DEF MemoryIInv, MemoryTyped
<1>5. CASE notes[s].status = "whole"
  BY <1>1, <1>2, <1>3, <1>5, MemoryUpToGrows DEF MemoryIInv, MemoryHeld
<1>6. CASE notes[s].status = "absent"
  <2>1. notes[s].entries = {} /\ memories.live[s] = {}
    BY <1>4, <1>6 DEF MemoryIsFile, MemoryIInv, MemoryHeld
  <2> QED BY <1>2, <1>3, <2>1 DEF MemoryUpTo
<1>7. CASE notes[s].status = "torn"
  <2>1. notes[s].entries = {}
    BY <1>4, <1>7 DEF MemoryIsFile
  <2>2. Memory!IdsOf(memories.live[s]) \subseteq memories'.risk
    BY <1>7 DEF MemoryCosts
  <2> QED BY <1>2, <1>3, <2>1, <2>2 DEF MemoryUpTo, Memory!IdsOf
<1> QED BY <1>4, <1>5, <1>6, <1>7 DEF MemoryIsFile

(* A new entry.                                                              *)
LEMMA MemoryReadHolds ==
  ASSUME MemoryIInv, NEW w \in Scribes, Memory!Read(w),
         ~\E e \in notes[Head(work[w].dirs)].entries : Memory!Same(e, work[w].text)
  PROVE  MemoryIInv'
<1> DEFINE r == work[w]
           s == Head(r.dirs)
           entries == notes[s].entries
           new == [id |-> ids + 1, text |-> Memory!Stored(r.text)]
           copy == Memory!Whole(entries \cup {new})
           j == [r EXCEPT !.id = ids + 1, !.added = @ + 1, !.copy = copy]
<1>1. /\ r.step = "read" /\ ids' = ids + 1 /\ Memory!Hold(w, j) /\ UNCHANGED <<notes, markdown, bundle>>
  BY DEF Memory!Read, Memory!ReadEntries, Memory!Scope
<1>2. MemoryIsJob(r) /\ (r.op = "import" /\ r.alone => MemoryCounts(r)) /\ ids \in Nat
  BY DEF MemoryIInv, MemoryTyped, MemoryCounted
<1>3. r.op \in {"add", "import"} /\ s \in Memory!Places /\ r.added \in Nat
  BY <1>1, <1>2 DEF MemoryIsJob
<1>4. \A e \in entries : e.text # new.text
  BY DEF Memory!Same
<1>5. copy.status = "whole" /\ copy.entries = entries \cup {new} /\ MemoryIsFile(copy)
  BY DEF Memory!Whole, MemoryIsFile
<1>6. new.id = ids + 1 /\ new.text = Memory!Stored(r.text)
  OBVIOUS
<1> HIDE DEF copy, r
<1>7. /\ DOMAIN j = DOMAIN r /\ j.op = r.op /\ j.step = r.step /\ j.dirs = r.dirs /\ j.text = r.text
      /\ j.copy = copy /\ j.id = ids + 1 /\ j.imported = r.imported /\ j.added = r.added + 1 /\ j.known = r.known
  BY <1>2 DEF MemoryIsJob
<1>8. j.alone = r.alone
  BY <1>2 DEF MemoryIsJob
<1> HIDE DEF j
<1>9. MemoryCosts(w, j, s)
  <2>1. MemoryTyped
    BY DEF MemoryIInv
  <2> QED BY <1>1, <1>7, <2>1, MemoryHoldCosts DEF s
<1>10. /\ MemoryUpTo(entries, memories.live[s], memories'.risk)
       /\ MemorySingle(entries, memories.updated \cup memories'.risk)
       /\ MemoryBelow(entries, ids)
  BY <1>3, <1>7, <1>9, MemoryFound
<1> HIDE DEF s, entries
<1>11. MemoryIsJob(j)
  <2>1. r.added + 1 \in Nat
    BY <1>3
  <2> QED BY <1>1, <1>2, <1>3, <1>5, <1>7, <2>1 DEF MemoryIsJob, MemoryBusy
<1>12. MemoryBelow(j.copy.entries, ids')
  BY <1>1, <1>2, <1>5, <1>6, <1>7, <1>10 DEF MemoryBelow
<1>13. MemoryUpTo(j.copy.entries, Memory!Promised(j, memories.live[s]), memories'.risk)
  <2>1. Memory!Promised(j, memories.live[s]) = {e \in memories.live[s] : e.id # ids + 1} \cup {new}
    BY <1>3, <1>7 DEF Memory!Promised
  <2>2. \A e \in entries : e.id # ids + 1
    BY <1>2, <1>10 DEF MemoryBelow
  <2> HIDE DEF new
  <2> QED BY <1>5, <1>7, <1>10, <2>1, <2>2 DEF MemoryUpTo
<1>14. MemorySingle(j.copy.entries, memories.updated \cup memories'.risk \cup (IF j.op = "update" THEN {j.id} ELSE {}))
  <2> HIDE DEF new
  <2> QED BY <1>3, <1>4, <1>5, <1>7, <1>10 DEF MemorySingle
<1>15. ASSUME j.op = "import", j.alone
       PROVE  /\ j.imported = j.added
              /\ MemoryKnows(j.known, entries) /\ MemoryKnows(j.known, j.copy.entries)
  <2>1. MemoryCounts(r)
    BY <1>2, <1>7, <1>8, <1>15
  <2>2. r.imported = r.added + 1 /\ MemoryKnows(r.known, entries) /\ r.text \notin Secrets /\ r.text \in r.known
    BY <1>1, <2>1 DEF MemoryCounts, s, entries
  <2>3. new.text \in r.known
    BY <1>6, <2>2 DEF Memory!Stored
  <2> HIDE DEF new
  <2>4. MemoryKnows(r.known, entries \cup {new})
    BY <2>2, <2>3 DEF MemoryKnows
  <2> QED BY <1>5, <1>7, <2>2, <2>4
<1>16. MemoryHolds(w, j)
  <2>1. Head(j.dirs) = s /\ j.step # "idle" /\ j.copy.status # "absent" /\ notes[s].entries = entries
    BY <1>1, <1>5, <1>7 DEF s, entries
  <2> QED BY <1>11, <1>12, <1>13, <1>14, <1>15, <2>1 DEF MemoryHolds
<1> QED BY <1>1, <1>2, <1>16, MemoryHoldKeeps DEF MemoryBusy, r

(* An entry that changes or goes.                                            *)
LEMMA MemorySeekHolds ==
  ASSUME MemoryIInv, NEW w \in Scribes, Memory!Seek(w),
         work[w].id \in Memory!IdsOf(notes[Head(work[w].dirs)].entries)
  PROVE  MemoryIInv'
<1> DEFINE r == work[w]
           s == Head(r.dirs)
           entries == notes[s].entries
           new == [id |-> r.id, text |-> Memory!Stored(r.text)]
           copy == Memory!Whole(Memory!Changed(r, entries))
           j == [r EXCEPT !.copy = copy]
<1>1. r.step = "seek" /\ Memory!Hold(w, j) /\ UNCHANGED <<notes, markdown, bundle, ids>>
  BY DEF Memory!Seek, Memory!ReadEntries, Memory!Scope
<1>2. MemoryIsJob(r) /\ ids \in Nat
  BY DEF MemoryIInv, MemoryTyped
<1>3. r.op \in {"update", "delete"} /\ s \in Memory!Places
  BY <1>1, <1>2 DEF MemoryIsJob
<1>4. r.id \in Memory!IdsOf(entries)
  OBVIOUS
<1>5. /\ copy.status = "whole" /\ MemoryIsFile(copy)
      /\ copy.entries = {e \in entries : e.id # r.id} \cup (IF r.op = "update" THEN {new} ELSE {})
  BY DEF Memory!Whole, MemoryIsFile, Memory!Changed
<1>6. new.id = r.id
  OBVIOUS
<1> HIDE DEF copy, r
<1>7. /\ DOMAIN j = DOMAIN r /\ j.op = r.op /\ j.step = r.step /\ j.dirs = r.dirs /\ j.text = r.text
      /\ j.copy = copy /\ j.id = r.id /\ j.imported = r.imported /\ j.added = r.added
  BY <1>2 DEF MemoryIsJob
<1> HIDE DEF j
<1>8. MemoryCosts(w, j, s)
  <2>1. MemoryTyped
    BY DEF MemoryIInv
  <2> QED BY <1>1, <1>7, <2>1, MemoryHoldCosts DEF s
<1>9. /\ MemoryUpTo(entries, memories.live[s], memories'.risk)
      /\ MemorySingle(entries, memories.updated \cup memories'.risk)
      /\ MemoryBelow(entries, ids)
  BY <1>3, <1>7, <1>8, MemoryFound
<1>10. MemoryIsJob(j)
  BY <1>1, <1>2, <1>3, <1>5, <1>7 DEF MemoryIsJob, MemoryBusy
<1>11. Memory!Promised(j, memories.live[s])
         = {e \in memories.live[s] : e.id # r.id} \cup (IF r.op = "update" THEN {new} ELSE {})
  BY <1>3, <1>7 DEF Memory!Promised
<1> HIDE DEF s, entries
<1>12. MemoryBelow(j.copy.entries, ids')
  BY <1>1, <1>2, <1>4, <1>5, <1>6, <1>7, <1>9 DEF MemoryBelow, Memory!IdsOf
<1> HIDE DEF new
<1>13. MemoryUpTo(j.copy.entries, Memory!Promised(j, memories.live[s]), memories'.risk)
  BY <1>5, <1>7, <1>9, <1>11 DEF MemoryUpTo
<1>14. MemorySingle(j.copy.entries, memories.updated \cup memories'.risk \cup (IF j.op = "update" THEN {j.id} ELSE {}))
  BY <1>3, <1>5, <1>6, <1>7, <1>9 DEF MemorySingle
<1>15. MemoryHolds(w, j)
  <2>1. Head(j.dirs) = s /\ j.step # "idle" /\ j.copy.status # "absent" /\ j.op # "import"
    BY <1>1, <1>3, <1>5, <1>7 DEF s
  <2> QED BY <1>10, <1>12, <1>13, <1>14, <2>1 DEF MemoryHolds
<1> QED BY <1>1, <1>2, <1>15, MemoryHoldKeeps DEF MemoryBusy, r

LEMMA MemorySeekKeeps ==
  ASSUME MemoryIInv, NEW w \in Scribes, Memory!Seek(w)
  PROVE  MemoryIInv'
<1>1. CASE work[w].id \in Memory!IdsOf(notes[Head(work[w].dirs)].entries)
  BY <1>1, MemorySeekHolds
<1>2. CASE work[w].id \notin Memory!IdsOf(notes[Head(work[w].dirs)].entries)
  <2>1. /\ work[w].step = "seek"
        /\ work' = [work EXCEPT ![w] = IF Len(work[w].dirs) = 1 THEN Memory!Rest
                                       ELSE [work[w] EXCEPT !.dirs = Tail(@)]]
        /\ UNCHANGED <<notes, markdown, bundle, ids, memories>>
    BY <1>2 DEF Memory!Seek, Memory!ReadEntries, Memory!Scope
  <2> QED BY <2>1, MemoryOnwardKeeps
<1> QED BY <1>1, <1>2

(* A file of the backup.                                                     *)
LEMMA MemoryRestoreHolds ==
  ASSUME MemoryIInv, NEW w \in Scribes, work[w].step = "restore",
         bundle[Head(work[w].dirs)] # Memory!Absent,
         Memory!Hold(w, [work[w] EXCEPT !.copy = bundle[Head(work[w].dirs)]]),
         UNCHANGED <<notes, markdown, bundle, ids>>
  PROVE  MemoryIInv'
<1> DEFINE r == work[w]
           s == Head(r.dirs)
           copy == bundle[s]
           j == [r EXCEPT !.copy = copy]
<1>1. MemoryIsJob(r) /\ ids \in Nat
  BY DEF MemoryIInv, MemoryTyped
<1>2. r.op = "restore" /\ s \in Memory!Places
  BY <1>1 DEF MemoryIsJob
<1>3. MemoryIsFile(copy)
  BY <1>2 DEF MemoryIInv, MemoryTyped
<1>4. copy.status # "absent"
  BY <1>3 DEF MemoryIsFile, Memory!Absent
<1>5. Memory!Hold(w, j) /\ r.step = "restore"
  OBVIOUS
<1> HIDE DEF copy, r
<1>6. /\ DOMAIN j = DOMAIN r /\ j.op = r.op /\ j.step = r.step /\ j.dirs = r.dirs
      /\ j.copy = copy /\ j.imported = r.imported /\ j.added = r.added
  BY <1>1 DEF MemoryIsJob
<1> HIDE DEF j
<1>7. MemoryCosts(w, j, s)
  <2>1. MemoryTyped
    BY DEF MemoryIInv
  <2> QED BY <1>5, <1>6, <2>1, MemoryHoldCosts DEF s
<1>8. MemoryIsJob(j)
  BY <1>1, <1>2, <1>3, <1>5, <1>6 DEF MemoryIsJob, MemoryBusy
<1>9. MemoryBelow(copy.entries, ids)
  BY <1>2 DEF MemoryIInv, MemoryNumbered, copy
<1>10. MemorySingle(copy.entries, memories.updated \cup memories'.risk)
  <2>1. memories.risk \subseteq memories'.risk
    BY <1>7 DEF MemoryCosts
  <2> QED BY <1>2, <2>1, MemorySingleGrows DEF MemoryIInv, MemoryTwinless, copy
<1>11. MemoryUpTo(j.copy.entries, Memory!Promised(j, memories.live[s]), memories'.risk)
  BY <1>2, <1>6 DEF Memory!Promised, MemoryUpTo
<1>12. MemoryHolds(w, j)
  <2>1. Head(j.dirs) = s /\ j.step # "idle" /\ j.copy.status # "absent" /\ j.op = "restore"
    BY <1>2, <1>4, <1>5, <1>6 DEF s
  <2>2. MemorySingle(j.copy.entries,
          memories.updated \cup memories'.risk \cup (IF j.op = "update" THEN {j.id} ELSE {}))
    BY <1>6, <1>10, <2>1
  <2> QED BY <1>6, <1>8, <1>9, <1>11, <2>1, <2>2 DEF MemoryHolds
<1> QED BY <1>1, <1>5, <1>12, MemoryHoldKeeps DEF MemoryBusy, r

LEMMA MemoryRestoreKeeps ==
  ASSUME MemoryIInv, NEW w \in Scribes, NEW overwrite \in BOOLEAN, Memory!RestoreFile(w, overwrite)
  PROVE  MemoryIInv'
<1> DEFINE s == Head(work[w].dirs)
           skip == bundle[s] = Memory!Absent \/ (~overwrite /\ notes[s] # Memory!Absent)
<1>1. work[w].step = "restore" /\ UNCHANGED <<notes, markdown, bundle, ids>>
  BY DEF Memory!RestoreFile
<1>2. CASE skip
  <2>1. /\ work' = [work EXCEPT ![w] = IF Len(work[w].dirs) = 1 THEN Memory!Rest
                                       ELSE [work[w] EXCEPT !.dirs = Tail(@)]]
        /\ UNCHANGED memories
    BY <1>2 DEF Memory!RestoreFile, Memory!Scope
  <2> QED BY <1>1, <2>1, MemoryOnwardKeeps
<1>3. CASE ~skip
  <2>1. Memory!Hold(w, [work[w] EXCEPT !.copy = bundle[s]])
    BY <1>3 DEF Memory!RestoreFile, Memory!Scope
  <2> QED BY <1>1, <1>3, <2>1, MemoryRestoreHolds
<1> QED BY <1>2, <1>3

-----------------------------------------------------------------------------
(* The copy is written.                                                      *)

LEMMA MemoryTornIs ==
  MemoryIsFile(Memory!Torn) /\ Memory!Torn.status = "torn" /\ Memory!Torn.entries = {}
BY DEF Memory!Torn, MemoryIsFile

(* Files that are replaced by an empty one, or by a writer's copy.           *)
LEMMA MemoryFileReplaced ==
  ASSUME MemoryTyped, NEW s \in Memory!Places, NEW x, notes' = [notes EXCEPT ![s] = x]
  PROVE  DOMAIN notes' = Memory!Places /\ \A q \in Memory!Places : notes'[q] = IF q = s THEN x ELSE notes[q]
BY DEF MemoryTyped

LEMMA MemoryTruncateKeeps ==
  ASSUME MemoryIInv, NEW w \in Scribes, Memory!Truncate(w)
  PROVE  MemoryIInv'
<1> DEFINE r == work[w]
           s == Head(r.dirs)
           j == [r EXCEPT !.step = "fill"]
<1>1. /\ r.step = "truncate" /\ notes' = [notes EXCEPT ![s] = Memory!Torn] /\ work' = [work EXCEPT ![w] = j]
      /\ UNCHANGED <<markdown, bundle, ids, memories>>
  BY DEF Memory!Truncate, Memory!Scope
<1>2. MemoryTyped /\ MemoryIsJob(r)
  BY DEF MemoryIInv, MemoryTyped
<1>3. s \in Memory!Places
  BY <1>1, <1>2 DEF MemoryIsJob
<1> HIDE DEF r
<1>4. /\ DOMAIN j = DOMAIN r /\ j.op = r.op /\ j.step = "fill" /\ j.dirs = r.dirs /\ j.copy = r.copy
      /\ j.imported = r.imported /\ j.added = r.added /\ j.known = r.known /\ j.id = r.id /\ j.text = r.text
  BY <1>2 DEF MemoryIsJob
<1>5. j.alone = r.alone
  BY <1>2 DEF MemoryIsJob
<1> HIDE DEF j
<1>6. DOMAIN work' = Scribes /\ \A v \in Scribes : work'[v] = IF v = w THEN j ELSE work[v]
  BY <1>1, <1>2, MemoryReplaced
<1>7. /\ DOMAIN notes' = Memory!Places
      /\ \A q \in Memory!Places : notes'[q] = IF q = s THEN Memory!Torn ELSE notes[q]
  BY <1>1, <1>2, <1>3, MemoryFileReplaced
<1>8. \A v \in Scribes : Memory!Scope(v)' = Memory!Scope(v)
  BY <1>4, <1>6 DEF Memory!Scope, r
<1>9. \A q \in Memory!Places :
        /\ notes'[q].entries = {} \/ notes'[q] = notes[q]
        /\ q = s => notes'[q].status = "torn"
        /\ q # s => notes'[q] = notes[q]
  BY <1>7, MemoryTornIs
<1>10. MemoryTyped'
  <2>1. MemoryIsJob(j)
    BY <1>1, <1>2, <1>4 DEF MemoryIsJob, MemoryBusy
  <2>2. \A q \in Memory!Places : MemoryIsFile(notes'[q])
    BY <1>2, <1>7, MemoryTornIs DEF MemoryTyped
  <2> QED BY <1>1, <1>2, <1>6, <1>7, <2>1, <2>2 DEF MemoryTyped
<1>11. MemoryNumbered'
  BY <1>1, <1>4, <1>6, <1>9 DEF MemoryIInv, MemoryNumbered, MemoryBelow, r
<1>12. MemoryHeld'
  <2>1. Memory!Promised(j, memories.live[Memory!Scope(w)]) = Memory!Promised(r, memories.live[Memory!Scope(w)])
    BY <1>4 DEF Memory!Promised
  <2>2. \A v \in Scribes : work'[v].step \in MemoryAtWork =>
          MemoryUpTo(work'[v].copy.entries, Memory!Promised(work'[v], memories.live[Memory!Scope(v)]), memories.risk)
    BY <1>1, <1>4, <1>6, <2>1 DEF MemoryIInv, MemoryHeld, MemoryAtWork, r
  <2>3. \A q \in Memory!Places :
          /\ notes'[q].status = "absent" => memories.live[q] = {}
          /\ notes'[q].status = "whole" => MemoryUpTo(notes'[q].entries, memories.live[q], memories.risk)
    BY <1>9 DEF MemoryIInv, MemoryHeld
  <2> QED BY <1>1, <1>8, <2>2, <2>3 DEF MemoryHeld, Memory!Promised
<1>13. MemoryContested'
  <2>1. \A v \in Scribes : work'[v].op = work[v].op /\ work'[v].copy = work[v].copy /\ work'[v].id = work[v].id
    BY <1>4, <1>6 DEF r
  <2>2. \A v \in Scribes : work'[v].step \in MemoryAtWork => work[v].step \in MemoryAtWork
    BY <1>1, <1>6 DEF r, MemoryAtWork
  <2>3. \A v \in Scribes : Memory!Touched(v, Memory!Scope(v))' = Memory!Touched(v, Memory!Scope(v))
    BY <1>1, <1>8, <2>1 DEF Memory!Touched
  <2> QED BY <1>1, <1>8, <2>2, <2>3 DEF MemoryIInv, MemoryContested
<1>14. MemoryTwinless'
  <2>1. \A v \in Scribes : work'[v].op = work[v].op /\ work'[v].copy = work[v].copy /\ work'[v].id = work[v].id
    BY <1>4, <1>6 DEF r
  <2>2. \A v \in Scribes : work'[v].step \in MemoryAtWork => work[v].step \in MemoryAtWork
    BY <1>1, <1>6 DEF r, MemoryAtWork
  <2>3. \A R : MemorySingle({}, R)
    BY DEF MemorySingle
  <2>4. \A q \in Memory!Places : MemorySingle(notes'[q].entries, memories.updated \cup memories.risk)
    BY <1>9, <2>3 DEF MemoryIInv, MemoryTwinless
  <2> QED BY <1>1, <2>1, <2>2, <2>4 DEF MemoryIInv, MemoryTwinless
<1>15. MemoryCounted'
  <2> SUFFICES ASSUME NEW v \in Scribes, work'[v].op = "import", work'[v].alone
               PROVE  MemoryCounts(work[v])'
    BY <1>1 DEF MemoryIInv, MemoryCounted, MemoryCounts
  <2>1. /\ work[v].op = "import" /\ work[v].alone /\ work'[v].dirs = work[v].dirs
        /\ work'[v].imported = work[v].imported /\ work'[v].added = work[v].added
        /\ work'[v].known = work[v].known /\ work'[v].copy = work[v].copy
        /\ work'[v].step = work[v].step \/ (work[v].step = "truncate" /\ work'[v].step = "fill")
    BY <1>1, <1>4, <1>5, <1>6 DEF r
  <2>2. work'[v].text = work[v].text
    BY <1>4, <1>6 DEF r
  <2>3. MemoryCounts(work[v]) /\ MemoryIsJob(work[v])
    BY <1>2, <2>1 DEF MemoryIInv, MemoryCounted, MemoryTyped
  <2>4. work[v].step # "idle" => Head(work[v].dirs) \in Memory!Places
    BY <2>3 DEF MemoryIsJob
  <2>5. work[v].step # "idle"
    BY <2>1, <2>3 DEF MemoryIsJob
  <2>6. notes'[Head(work[v].dirs)].entries = {} \/ notes'[Head(work[v].dirs)] = notes[Head(work[v].dirs)]
    BY <1>9, <2>4, <2>5
  <2> QED BY <2>1, <2>2, <2>3, <2>6 DEF MemoryCounts, MemoryKnows, MemoryAtWork
<1>16. MemoryShown'
  <2>1. \A v \in Scribes : work'[v].step \in MemoryBusy <=> work[v].step \in MemoryBusy
    BY <1>1, <1>4, <1>6 DEF MemoryBusy, r
  <2>2. \A v \in Scribes : work'[v].step = "markdown" => work'[v] = work[v]
    BY <1>4, <1>6
  <2>3. \A v \in Scribes : work[v].step \in {"fill", "markdown"} => work'[v].step \in {"fill", "markdown"}
    BY <1>4, <1>6
  <2>4. \A q \in Memory!Places : notes'[q].status = "whole" => notes'[q] = notes[q]
    BY <1>9
  <2> QED BY <1>1, <1>8, <2>1, <2>2, <2>3, <2>4 DEF MemoryIInv, MemoryShown
<1> QED BY <1>10, <1>11, <1>12, <1>13, <1>14, <1>15, <1>16 DEF MemoryIInv

(* What is promised of entries that differ differs there at most; and an     *)
(* operation changes what it touches.                                        *)
LEMMA MemoryPromisedUpTo ==
  ASSUME NEW r, NEW L, NEW M, NEW R, MemoryUpTo(L, M, R)
  PROVE  MemoryUpTo(Memory!Promised(r, L), Memory!Promised(r, M), R)
<1> DEFINE new == [id |-> r.id, text |-> Memory!Stored(r.text)]
<1>1. CASE r.op = "restore"
  BY <1>1 DEF Memory!Promised, MemoryUpTo
<1>2. CASE r.op = "delete"
  BY <1>2 DEF Memory!Promised, MemoryUpTo
<1>3. CASE r.op \notin {"restore", "delete"}
  <2>1. \A X : Memory!Promised(r, X) = {e \in X : e.id # r.id} \cup {new}
    BY <1>3 DEF Memory!Promised
  <2> HIDE DEF new
  <2> QED BY <2>1 DEF MemoryUpTo
<1> QED BY <1>1, <1>2, <1>3

LEMMA MemoryPromisedTouches ==
  ASSUME NEW r, NEW L, NEW R,
         IF r.op = "restore" THEN Memory!IdsOf(r.copy.entries) \cup Memory!IdsOf(L) \subseteq R ELSE r.id \in R
  PROVE  MemoryUpTo(L, Memory!Promised(r, L), R)
<1> DEFINE new == [id |-> r.id, text |-> Memory!Stored(r.text)]
<1>1. CASE r.op = "restore"
  BY <1>1 DEF Memory!Promised, MemoryUpTo, Memory!IdsOf
<1>2. CASE r.op = "delete"
  BY <1>2 DEF Memory!Promised, MemoryUpTo
<1>3. CASE r.op \notin {"restore", "delete"}
  <2>1. Memory!Promised(r, L) = {e \in L : e.id # r.id} \cup {new} /\ new.id = r.id
    BY <1>3 DEF Memory!Promised
  <2> HIDE DEF new
  <2> QED BY <1>3, <2>1 DEF MemoryUpTo
<1> QED BY <1>1, <1>2, <1>3

LEMMA MemoryUpToBoth ==
  ASSUME NEW L, NEW M, NEW N, NEW R, MemoryUpTo(L, M, R), MemoryUpTo(M, N, R)
  PROVE  MemoryUpTo(L, N, R)
BY DEF MemoryUpTo

(* An import that is disturbed goes on.                                      *)
MemoryGoesOn(j, r) ==
  /\ MemoryIsJob(j) /\ j.op = r.op /\ j.step = r.step /\ j.dirs = r.dirs /\ j.text = r.text /\ j.id = r.id
  /\ j.copy = r.copy /\ j.known = r.known /\ j.imported = r.imported /\ j.added = r.added

LEMMA MemoryDisturbed ==
  ASSUME NEW r, MemoryIsJob(r), NEW j, j = [r EXCEPT !.alone = FALSE]
  PROVE  MemoryGoesOn(j, r) /\ j.alone = FALSE
<1>1. /\ DOMAIN j = DOMAIN r /\ j.op = r.op /\ j.step = r.step /\ j.dirs = r.dirs /\ j.text = r.text
      /\ j.id = r.id /\ j.copy = r.copy /\ j.known = r.known /\ j.imported = r.imported /\ j.added = r.added
  BY DEF MemoryIsJob
<1>2. j.alone = FALSE
  BY DEF MemoryIsJob
<1>3. MemoryIsJob(j)
  BY <1>1 DEF MemoryIsJob
<1> QED BY <1>1, <1>2, <1>3 DEF MemoryGoesOn

(* What filling a file does.                                                 *)
LEMMA MemoryFills ==
  ASSUME MemoryIInv, NEW w \in Scribes, Memory!Fill(w)
  PROVE  LET r == work[w]
             s == Head(r.dirs)
         IN  /\ r.step = "fill" /\ s \in Memory!Places /\ UNCHANGED <<markdown, bundle, ids>>
             /\ \E x \in {r.copy, Memory!Torn} : notes' = [notes EXCEPT ![s] = x]
             /\ DOMAIN work' = Scribes
             /\ MemoryIsJob(work'[w]) /\ work'[w].step = "markdown" /\ work'[w].dirs = r.dirs
             /\ work'[w].op = r.op /\ work'[w].copy = r.copy /\ work'[w].known = r.known
             /\ work'[w].imported = r.imported /\ work'[w].added = r.added
             /\ work'[w].alone = r.alone
             /\ \A v \in Scribes \ {w} :
                  /\ MemoryGoesOn(work'[v], work[v])
                  /\ work'[v].op = "import" /\ work'[v].alone => work[v].alone /\ Memory!Scope(v) # s
<1> DEFINE r == work[w]
           s == Head(r.dirs)
           j == [r EXCEPT !.step = "markdown"]
           other(v) == IF work[v].op = "import" /\ Memory!Scope(v) = s THEN [work[v] EXCEPT !.alone = FALSE] ELSE work[v]
<1>1. /\ r.step = "fill" /\ UNCHANGED <<markdown, bundle, ids>>
      /\ \E x \in {r.copy} \cup (IF notes[s].status = "whole" THEN {Memory!Torn} ELSE {}) :
           notes' = [notes EXCEPT ![s] = x]
      /\ work' = [v \in Scribes |-> IF v = w THEN j ELSE other(v)]
  BY DEF Memory!Fill, Memory!Scope
<1>2. MemoryIsJob(r)
  BY DEF MemoryIInv, MemoryTyped
<1>3. \E x \in {r.copy, Memory!Torn} : notes' = [notes EXCEPT ![s] = x]
  BY <1>1
<1>4. s \in Memory!Places
  BY <1>1, <1>2 DEF MemoryIsJob
<1> HIDE DEF r
<1>5. /\ DOMAIN j = DOMAIN r /\ j.op = r.op /\ j.step = "markdown" /\ j.dirs = r.dirs /\ j.copy = r.copy
      /\ j.imported = r.imported /\ j.added = r.added /\ j.known = r.known
  BY <1>2 DEF MemoryIsJob
<1>6. j.alone = r.alone
  BY <1>2 DEF MemoryIsJob
<1> HIDE DEF j
<1>7. MemoryIsJob(j)
  BY <1>1, <1>2, <1>5 DEF MemoryIsJob, MemoryBusy
<1>8. work'[w] = j /\ DOMAIN work' = Scribes
  BY <1>1
<1>9. ASSUME NEW v \in Scribes \ {w}
      PROVE  /\ MemoryGoesOn(work'[v], work[v])
             /\ work'[v].op = "import" /\ work'[v].alone => work[v].alone /\ Memory!Scope(v) # s
  <2>1. MemoryIsJob(work[v]) /\ work'[v] = other(v)
    BY <1>1 DEF MemoryIInv, MemoryTyped
  <2>2. CASE work[v].op = "import" /\ Memory!Scope(v) = s
    BY <2>1, <2>2, MemoryDisturbed
  <2>3. CASE ~(work[v].op = "import" /\ Memory!Scope(v) = s)
    <3>1. work'[v] = work[v]
      BY <2>1, <2>3
    <3> QED BY <2>1, <2>3, <3>1 DEF MemoryGoesOn
  <2> QED BY <2>2, <2>3
<1> QED BY <1>1, <1>3, <1>4, <1>5, <1>6, <1>7, <1>8, <1>9 DEF r

LEMMA MemoryFillRecords ==
  ASSUME MemoryIInv, NEW w \in Scribes, Memory!Fill(w), Head(work[w].dirs) \in Memory!Places
  PROVE  LET r == work[w]
             s == Head(r.dirs)
         IN  /\ DOMAIN memories' = DOMAIN memories /\ DOMAIN memories'.live = Memory!Places
             /\ memories'.risk = memories.risk /\ memories'.stale = memories.stale
             /\ memories'.miscounted = FALSE
             /\ memories'.live[s] = Memory!Promised(r, memories.live[s])
             /\ \A q \in Memory!Places \ {s} : memories'.live[q] = memories.live[q]
             /\ memories.updated \subseteq memories'.updated
             /\ r.op = "update" => r.id \in memories'.updated
<1> DEFINE r == work[w]
           s == Head(r.dirs)
           promised == Memory!Promised(r, memories.live[s])
           more == IF r.op = "update" THEN {r.id} ELSE {}
<1>1. memories' = [memories EXCEPT !.live[s] = Memory!Promised(r, @),
                                   !.updated = IF r.op = "update" THEN @ \cup {r.id} ELSE @]
  BY DEF Memory!Fill, Memory!Scope
<1>2. /\ DOMAIN memories = {"live", "risk", "updated", "stale", "miscounted"}
      /\ DOMAIN memories.live = Memory!Places /\ memories.miscounted = FALSE
  BY DEF MemoryIInv, MemoryTyped, MemoryCounted
<1> DEFINE lives == [memories.live EXCEPT ![s] = promised]
<1>3. /\ DOMAIN lives = Memory!Places /\ lives[s] = promised
      /\ \A q \in Memory!Places \ {s} : lives[q] = memories.live[q]
  BY <1>2
<1>4. memories' = [memories EXCEPT !.live = lives,
                                   !.updated = IF r.op = "update" THEN @ \cup {r.id} ELSE @]
  BY <1>1, <1>2
<1> HIDE DEF lives, promised, s, r
<1>5. /\ DOMAIN memories' = DOMAIN memories /\ memories'.live = lives
      /\ memories'.risk = memories.risk /\ memories'.stale = memories.stale
      /\ memories'.updated = IF r.op = "update" THEN memories.updated \cup {r.id} ELSE memories.updated
  BY <1>2, <1>4
<1>6. memories'.miscounted = FALSE
  BY <1>2, <1>4
<1> QED BY <1>3, <1>5, <1>6 DEF promised, s, r

LEMMA MemoryFillKeeps ==
  ASSUME MemoryIInv, NEW w \in Scribes, Memory!Fill(w)
  PROVE  MemoryIInv'
<1> DEFINE r == work[w]
           s == Head(r.dirs)
           live == memories.live
           risk == memories.risk
<1>1. /\ r.step = "fill" /\ s \in Memory!Places /\ UNCHANGED <<markdown, bundle, ids>>
      /\ \E x \in {r.copy, Memory!Torn} : notes' = [notes EXCEPT ![s] = x]
      /\ DOMAIN work' = Scribes
  BY MemoryFills
<1>2. /\ MemoryIsJob(work'[w]) /\ work'[w].step = "markdown" /\ work'[w].dirs = r.dirs
      /\ work'[w].op = r.op /\ work'[w].copy = r.copy /\ work'[w].known = r.known
      /\ work'[w].imported = r.imported /\ work'[w].added = r.added
  BY MemoryFills
<1>3. work'[w].alone = r.alone
  BY MemoryFills
<1>4. \A v \in Scribes \ {w} : MemoryGoesOn(work'[v], work[v])
  BY MemoryFills
<1>5. \A v \in Scribes \ {w} :
        work'[v].op = "import" /\ work'[v].alone => work[v].alone /\ Memory!Scope(v) # s
  BY MemoryFills
<1>6. /\ DOMAIN memories' = DOMAIN memories /\ DOMAIN memories'.live = Memory!Places
      /\ memories'.risk = risk /\ memories'.stale = memories.stale /\ memories'.miscounted = FALSE
      /\ memories'.live[s] = Memory!Promised(r, live[s])
      /\ \A q \in Memory!Places \ {s} : memories'.live[q] = live[q]
      /\ memories.updated \subseteq memories'.updated
      /\ r.op = "update" => r.id \in memories'.updated
  BY <1>1, MemoryFillRecords
<1>7. MemoryTyped /\ MemoryIsJob(r)
  BY DEF MemoryIInv, MemoryTyped
<1>8. /\ DOMAIN notes' = Memory!Places
      /\ notes'[s] = r.copy \/ notes'[s] = Memory!Torn
      /\ \A q \in Memory!Places \ {s} : notes'[q] = notes[q]
  BY <1>1, <1>7, MemoryFileReplaced
<1>9. MemoryIsFile(r.copy) /\ r.copy.status # "absent"
  BY <1>1, <1>7 DEF MemoryIsJob, MemoryBusy
<1>10. \A v \in Scribes : Memory!Scope(v)' = Memory!Scope(v)
  BY <1>2, <1>4 DEF Memory!Scope, MemoryGoesOn
<1>11. \A v \in Scribes : work'[v].op = work[v].op /\ work'[v].copy = work[v].copy
  BY <1>2, <1>4 DEF MemoryGoesOn
<1>12. Memory!Scope(w) = s
  BY DEF Memory!Scope
<1>13. \A v \in Scribes : work'[v].step \in MemoryAtWork =>
         v # w /\ work[v].step \in MemoryAtWork /\ work'[v].id = work[v].id /\ work'[v].text = work[v].text
  BY <1>2, <1>4 DEF MemoryGoesOn, MemoryAtWork
<1>14. ASSUME NEW v \in Scribes, v # w, work[v].step \in MemoryAtWork, Memory!Scope(v) = s
       PROVE  Memory!Touched(v, s) \subseteq risk /\ Memory!Touched(w, s) \subseteq risk
  <2>1. work[w].step \in MemoryAtWork
    BY <1>1 DEF MemoryAtWork
  <2> QED BY <1>12, <1>14, <2>1 DEF MemoryIInv, MemoryContested
<1> HIDE DEF r, s
<1>15. MemoryTyped'
  <2>1. \A v \in Scribes : MemoryIsJob(work'[v])
    BY <1>2, <1>4 DEF MemoryGoesOn
  <2>2. \A q \in Memory!Places : MemoryIsFile(notes'[q])
    BY <1>7, <1>8, <1>9, MemoryTornIs DEF MemoryTyped
  <2> QED BY <1>1, <1>6, <1>7, <1>8, <2>1, <2>2 DEF MemoryTyped
<1>16. MemoryNumbered'
  <2>1. \A v \in Scribes : MemoryBelow(work'[v].copy.entries, ids)
    BY <1>11 DEF MemoryIInv, MemoryNumbered
  <2>2. MemoryBelow(notes'[s].entries, ids)
    BY <1>8, MemoryTornIs DEF MemoryIInv, MemoryNumbered, MemoryBelow, r
  <2>3. \A q \in Memory!Places : MemoryBelow(notes'[q].entries, ids) /\ MemoryBelow(bundle[q].entries, ids)
    BY <1>8, <2>2 DEF MemoryIInv, MemoryNumbered
  <2> QED BY <1>1, <2>1, <2>3 DEF MemoryNumbered
<1>17. MemoryHeld'
  <2>1. MemoryUpTo(r.copy.entries, Memory!Promised(r, live[s]), risk)
    BY <1>1, <1>12 DEF MemoryIInv, MemoryHeld, MemoryAtWork, r
  <2>2. ASSUME NEW q \in Memory!Places
        PROVE  /\ notes'[q].status = "absent" => memories'.live[q] = {}
               /\ notes'[q].status = "whole" => MemoryUpTo(notes'[q].entries, memories'.live[q], memories'.risk)
    <3>1. CASE q = s
      BY <1>6, <1>8, <1>9, <2>1, <3>1, MemoryTornIs
    <3>2. CASE q # s
      BY <1>6, <1>8, <3>2 DEF MemoryIInv, MemoryHeld
    <3> QED BY <3>1, <3>2
  <2>3. ASSUME NEW v \in Scribes, work'[v].step \in MemoryAtWork
        PROVE  MemoryUpTo(work'[v].copy.entries, Memory!Promised(work'[v], memories'.live[Memory!Scope(v)]), risk)
    <3>1. v # w /\ work[v].step \in MemoryAtWork
      BY <1>13, <2>3
    <3>2. Memory!Scope(v) \in Memory!Places
      BY <1>7, <3>1 DEF MemoryTyped, MemoryIsJob, Memory!Scope, MemoryAtWork
    <3>3. \A L : Memory!Promised(work'[v], L) = Memory!Promised(work[v], L)
      BY <1>11, <1>13, <2>3 DEF Memory!Promised
    <3>4. MemoryUpTo(work[v].copy.entries, Memory!Promised(work[v], live[Memory!Scope(v)]), risk)
      BY <3>1 DEF MemoryIInv, MemoryHeld
    <3>5. CASE Memory!Scope(v) # s
      BY <1>6, <1>11, <3>2, <3>3, <3>4, <3>5
    <3>6. CASE Memory!Scope(v) = s
      <4>1. Memory!Touched(w, s) \subseteq risk
        BY <1>14, <3>1, <3>6
      <4>2. IF r.op = "restore" THEN Memory!IdsOf(r.copy.entries) \cup Memory!IdsOf(live[s]) \subseteq risk
            ELSE r.id \in risk
        BY <4>1 DEF Memory!Touched, r
      <4>3. MemoryUpTo(live[s], Memory!Promised(r, live[s]), risk)
        BY <4>2, MemoryPromisedTouches
      <4>4. MemoryUpTo(Memory!Promised(work[v], live[s]), Memory!Promised(work[v], memories'.live[s]), risk)
        BY <1>6, <4>3, MemoryPromisedUpTo
      <4> QED BY <1>11, <3>3, <3>4, <3>6, <4>4, MemoryUpToBoth
    <3> QED BY <3>5, <3>6
  <2> QED BY <1>6, <1>10, <2>2, <2>3 DEF MemoryHeld, Memory!Promised
<1>18. MemoryContested'
  <2> SUFFICES ASSUME NEW v \in Scribes, NEW x \in Scribes, v # x, work'[v].step \in MemoryAtWork,
                      work'[x].step \in MemoryAtWork, Memory!Scope(v)' = Memory!Scope(x)'
               PROVE  Memory!Touched(v, Memory!Scope(v))' \subseteq memories'.risk
    BY DEF MemoryContested
  <2>1. v # w /\ x # w /\ work[v].step \in MemoryAtWork /\ work[x].step \in MemoryAtWork
        /\ work'[v].id = work[v].id /\ work'[v].op = work[v].op /\ work'[v].copy = work[v].copy
    BY <1>11, <1>13
  <2>2. Memory!Scope(v) = Memory!Scope(x) /\ Memory!Scope(v)' = Memory!Scope(v)
    BY <1>10
  <2>3. Memory!Touched(v, Memory!Scope(v)) \subseteq risk
    BY <2>1, <2>2 DEF MemoryIInv, MemoryContested
  <2>4. Memory!Scope(v) \in Memory!Places
    BY <1>7, <2>1 DEF MemoryTyped, MemoryIsJob, Memory!Scope, MemoryAtWork
  <2>5. CASE Memory!Scope(v) # s
    <3>1. Memory!Touched(v, Memory!Scope(v))' = Memory!Touched(v, Memory!Scope(v))
      BY <1>6, <2>1, <2>2, <2>4, <2>5 DEF Memory!Touched
    <3> QED BY <1>6, <2>3, <3>1
  <2>6. CASE Memory!Scope(v) = s
    <3>1. Memory!Touched(w, s) \subseteq risk
      BY <1>14, <2>1, <2>6
    <3>2. Memory!Touched(v, s) \subseteq risk
      BY <2>3, <2>6
    <3>3. Memory!IdsOf(Memory!Promised(r, live[s])) \subseteq Memory!IdsOf(live[s]) \cup Memory!Touched(w, s)
      <4> DEFINE new == [id |-> r.id, text |-> Memory!Stored(r.text)]
      <4>1. CASE r.op = "restore"
        BY <4>1 DEF Memory!Promised, Memory!IdsOf, Memory!Touched, r
      <4>2. CASE r.op # "restore"
        <5>1. Memory!Promised(r, live[s]) \subseteq live[s] \cup {new} /\ new.id = r.id
          BY <4>2 DEF Memory!Promised
        <5>2. Memory!Touched(w, s) = {r.id}
          BY <4>2 DEF Memory!Touched, r
        <5> HIDE DEF new
        <5> QED BY <5>1, <5>2 DEF Memory!IdsOf
      <4> QED BY <4>1, <4>2
    <3>4. Memory!Touched(v, Memory!Scope(v))' =
            IF work[v].op = "restore"
            THEN Memory!IdsOf(work[v].copy.entries) \cup Memory!IdsOf(Memory!Promised(r, live[s])) ELSE {work[v].id}
      BY <1>6, <2>1, <2>2, <2>6 DEF Memory!Touched, Memory!IdsOf
    <3> QED BY <1>6, <3>1, <3>2, <3>3, <3>4 DEF Memory!Touched
  <2> QED BY <2>5, <2>6
<1>19. MemoryTwinless'
  <2> DEFINE but == memories.updated \cup risk
             more == memories'.updated \cup risk
             own(q) == IF q.op = "update" THEN {q.id} ELSE {}
  <2>1. but \subseteq more /\ own(r) \subseteq more
    BY <1>6
  <2>2. \A E : MemorySingle(E, but) => MemorySingle(E, more)
    BY <2>1, MemorySingleGrows
  <2>3. \A E, q : MemorySingle(E, but \cup own(q)) => MemorySingle(E, more \cup own(q))
    BY <2>1, MemorySingleGrows
  <2>4. MemorySingle(r.copy.entries, but \cup own(r))
    BY <1>1 DEF MemoryIInv, MemoryTwinless, MemoryAtWork, r
  <2>5. MemorySingle(r.copy.entries, more)
    BY <2>1, <2>4, MemorySingleGrows
  <2>6. MemorySingle(Memory!Torn.entries, more)
    BY MemoryTornIs DEF MemorySingle
  <2>7. \A q \in Memory!Places : MemorySingle(notes[q].entries, but) /\ MemorySingle(bundle[q].entries, but)
    BY DEF MemoryIInv, MemoryTwinless
  <2>8. \A v \in Scribes : work[v].step \in MemoryAtWork => MemorySingle(work[v].copy.entries, but \cup own(work[v]))
    BY DEF MemoryIInv, MemoryTwinless
  <2>9. \A v \in Scribes : work'[v].step \in MemoryAtWork => own(work'[v]) = own(work[v])
    BY <1>11, <1>13
  <2> HIDE DEF own, but, more
  <2>10. \A v \in Scribes : work'[v].step \in MemoryAtWork => MemorySingle(work'[v].copy.entries, more \cup own(work'[v]))
    BY <1>11, <1>13, <2>3, <2>8, <2>9
  <2>11. \A q \in Memory!Places : MemorySingle(notes'[q].entries, more) /\ MemorySingle(bundle[q].entries, more)
    BY <1>8, <2>2, <2>5, <2>6, <2>7
  <2> QED BY <1>1, <1>6, <2>10, <2>11 DEF MemoryTwinless, own, more
<1>20. MemoryCounted'
  <2> SUFFICES ASSUME NEW v \in Scribes, work'[v].op = "import", work'[v].alone
               PROVE  MemoryCounts(work[v])'
    BY <1>6 DEF MemoryCounted, MemoryCounts
  <2>1. work[v].op = "import" /\ work[v].alone
    BY <1>3, <1>5, <1>11 DEF r
  <2>2. MemoryCounts(work[v]) /\ MemoryIsJob(work[v])
    BY <1>7, <2>1 DEF MemoryIInv, MemoryCounted, MemoryTyped
  <2>3. CASE v = w
    <3>1. r.imported = r.added /\ MemoryKnows(r.known, r.copy.entries)
      BY <1>1, <2>2, <2>3 DEF MemoryCounts, MemoryAtWork, r
    <3>2. MemoryKnows(r.known, notes'[s].entries)
      BY <1>8, <3>1, MemoryTornIs DEF MemoryKnows
    <3> QED BY <1>2, <2>3, <3>1, <3>2 DEF MemoryCounts, MemoryAtWork, s
  <2>4. CASE v # w
    <3>1. Memory!Scope(v) # s /\ MemoryGoesOn(work'[v], work[v])
      BY <1>4, <1>5, <2>4
    <3>2. Head(work[v].dirs) \in Memory!Places
      BY <2>1, <2>2 DEF MemoryIsJob
    <3>3. notes'[Head(work[v].dirs)] = notes[Head(work[v].dirs)]
      BY <1>8, <3>1, <3>2 DEF Memory!Scope
    <3> QED BY <2>2, <3>1, <3>3 DEF MemoryCounts, MemoryGoesOn
  <2> QED BY <2>3, <2>4
<1>21. MemoryShown'
  <2> SUFFICES ASSUME NEW q \in Memory!Places, q \notin memories.stale
               PROVE  /\ \A v, x \in Scribes :
                           /\ v # x /\ work'[v].step \in MemoryBusy /\ work'[x].step \in MemoryBusy
                           => ~(Memory!Scope(v)' = q /\ Memory!Scope(x)' = q)
                      /\ \A v \in Scribes :
                           work'[v].step = "markdown" /\ Memory!Scope(v)' = q /\ notes'[q].status = "whole" =>
                             notes'[q].entries = work'[v].copy.entries
                      /\ /\ notes'[q].status = "whole"
                         /\ \A v \in Scribes : work'[v].step \in {"fill", "markdown"} => Memory!Scope(v)' # q
                         => markdown'[q] = notes'[q].entries
    BY <1>6 DEF MemoryShown
  <2>1. \A v \in Scribes : work'[v].step \in MemoryBusy <=> work[v].step \in MemoryBusy
    BY <1>1, <1>2, <1>4 DEF MemoryBusy, MemoryGoesOn, r
  <2>2. \A v, x \in Scribes :
          /\ v # x /\ work[v].step \in MemoryBusy /\ work[x].step \in MemoryBusy
          => ~(Memory!Scope(v) = q /\ Memory!Scope(x) = q)
    BY DEF MemoryIInv, MemoryShown
  <2>3. ASSUME NEW v \in Scribes, work'[v].step = "markdown", Memory!Scope(v)' = q, notes'[q].status = "whole"
        PROVE  notes'[q].entries = work'[v].copy.entries
    <3>1. CASE v = w
      BY <1>2, <1>8, <1>10, <1>12, <2>3, <3>1, MemoryTornIs
    <3>2. CASE v # w
      <4>1. work[v].step = "markdown" /\ Memory!Scope(v) = q
        BY <1>4, <1>10, <2>3, <3>2 DEF MemoryGoesOn
      <4>2. q # s
        BY <1>1, <1>12, <2>2, <3>2, <4>1 DEF MemoryBusy, r
      <4>3. notes'[q] = notes[q]
        BY <1>8, <4>2
      <4> QED BY <1>11, <2>3, <4>1, <4>3 DEF MemoryIInv, MemoryShown
    <3> QED BY <3>1, <3>2
  <2>4. ASSUME notes'[q].status = "whole",
               \A v \in Scribes : work'[v].step \in {"fill", "markdown"} => Memory!Scope(v)' # q
        PROVE  markdown'[q] = notes'[q].entries
    <3>1. q # s
      BY <1>2, <1>10, <1>12, <2>4
    <3>2. notes'[q] = notes[q]
      BY <1>8, <3>1
    <3>3. \A v \in Scribes : work[v].step \in {"fill", "markdown"} => Memory!Scope(v) # q
      BY <1>4, <1>10, <1>12, <2>4, <3>1 DEF MemoryGoesOn
    <3> QED BY <1>1, <2>4, <3>2, <3>3 DEF MemoryIInv, MemoryShown
  <2> QED BY <1>10, <2>1, <2>2, <2>3, <2>4
<1> QED BY <1>15, <1>16, <1>17, <1>18, <1>19, <1>20, <1>21 DEF MemoryIInv

-----------------------------------------------------------------------------
(* The Markdown, and what else may happen.                                   *)

LEMMA MemoryMarkdownLeaves ==
  ASSUME MemoryIInv, NEW w \in Scribes, Memory!Markdown(w)
  PROVE  \E j : MemoryLeaves(w, j) /\ j.step \notin MemoryBusy
<1> DEFINE r == work[w]
           after == Memory!After(r)
           onward == [r EXCEPT !.dirs = Tail(@)]
           again == [r EXCEPT !.dirs = Tail(@), !.step = "restore"]
           more == r.op = "restore" /\ Len(r.dirs) > 1
<1>1. r.step = "markdown" /\ work' = [work EXCEPT ![w] = IF more THEN again ELSE after]
  BY DEF Memory!Markdown
<1>2. MemoryIsJob(r) /\ MemoryBelow(r.copy.entries, ids) /\ (r.op = "import" /\ r.alone => MemoryCounts(r))
  BY DEF MemoryIInv, MemoryTyped, MemoryNumbered, MemoryCounted
<1>3. CASE ~more
  <2>1. work' = [work EXCEPT ![w] = after]
    BY <1>1, <1>3
  <2>2. /\ MemoryIsJob(after) /\ after.step \in {"idle", "next"}
        /\ after.copy.entries = r.copy.entries \/ after.copy.entries = {}
        /\ after.op = "import" =>
             /\ r.op = "import" /\ after.dirs = r.dirs /\ after.copy = r.copy
             /\ after.imported = r.imported /\ after.added = r.added /\ after.known = r.known
    BY <1>1, <1>2, MemoryAfter
  <2>3. after.op = "import" /\ after.alone => r.alone
    BY <1>1, <1>2, MemoryAfter
  <2> HIDE DEF after, r
  <2>4. after.op = "import" /\ after.alone => MemoryCounts(after)
    BY <1>1, <1>2, <2>2, <2>3 DEF MemoryCounts, MemoryAtWork
  <2>5. MemoryLeaves(w, after) /\ after.step \notin MemoryBusy
    BY <1>2, <2>1, <2>2, <2>4 DEF MemoryLeaves, MemoryAtWork, MemoryBusy, MemoryBelow
  <2> QED BY <2>5
<1>4. CASE more
  <2>1. work' = [work EXCEPT ![w] = again]
    BY <1>1, <1>4
  <2>2. MemoryIsJob(onward) /\ onward.step = r.step /\ onward.op = r.op /\ onward.copy = r.copy
    <3>1. r.dirs \in Seq(Memory!Places) /\ r.dirs # <<>>
      BY <1>1, <1>2 DEF MemoryIsJob
    <3>2. Len(r.dirs) # 1
      BY <1>4, <3>1, MemoryTails
    <3> QED BY <1>1, <1>2, <3>2, MemoryOnward
  <2>3. again = [onward EXCEPT !.step = "restore"]
    OBVIOUS
  <2> HIDE DEF onward, again, r
  <2>4. /\ DOMAIN again = DOMAIN onward /\ again.op = onward.op /\ again.step = "restore"
        /\ again.dirs = onward.dirs /\ again.copy = onward.copy
        /\ again.imported = onward.imported /\ again.added = onward.added
    BY <2>2, <2>3 DEF MemoryIsJob
  <2>5. onward.step # "idle" /\ onward.op = "restore"
    BY <1>1, <1>4, <2>2
  <2>6. MemoryIsJob(again)
    BY <2>2, <2>4, <2>5 DEF MemoryIsJob, MemoryBusy
  <2>7. MemoryLeaves(w, again) /\ again.step \notin MemoryBusy
    BY <1>2, <2>1, <2>2, <2>4, <2>5, <2>6 DEF MemoryLeaves, MemoryAtWork, MemoryBusy
  <2> QED BY <2>7
<1> QED BY <1>3, <1>4

LEMMA MemoryMarkdownShows ==
  ASSUME MemoryIInv, NEW w \in Scribes, Memory!Markdown(w)
  PROVE  LET s == Head(work[w].dirs)
             alone == Memory!Holders(w, s) \cup Memory!Owing(w, s) = {}
         IN  /\ work[w].step = "markdown" /\ s \in Memory!Places
             /\ UNCHANGED <<notes, bundle, ids>>
             /\ DOMAIN markdown' = Memory!Places
             /\ \A q \in Memory!Places : markdown'[q] = IF q = s THEN work[w].copy.entries ELSE markdown[q]
             /\ MemoryHistoryStays
             /\ memories'.stale = IF alone /\ notes[s] = work[w].copy THEN memories.stale \ {s} ELSE memories.stale
<1> DEFINE r == work[w]
           s == Head(r.dirs)
           alone == Memory!Holders(w, s) \cup Memory!Owing(w, s) = {}
<1>1. /\ r.step = "markdown" /\ UNCHANGED <<notes, bundle, ids>>
      /\ markdown' = [markdown EXCEPT ![s] = r.copy.entries]
      /\ memories' = [memories EXCEPT !.stale = IF alone /\ notes[s] = r.copy THEN @ \ {s} ELSE @]
  BY DEF Memory!Markdown, Memory!Scope
<1>2. /\ DOMAIN memories = {"live", "risk", "updated", "stale", "miscounted"} /\ memories.miscounted = FALSE
      /\ DOMAIN markdown = Memory!Places /\ MemoryIsJob(r)
  BY DEF MemoryIInv, MemoryTyped, MemoryCounted
<1>3. s \in Memory!Places
  BY <1>1, <1>2 DEF MemoryIsJob
<1> HIDE DEF alone, r, s
<1>4. /\ DOMAIN memories' = DOMAIN memories
      /\ memories'.live = memories.live /\ memories'.risk = memories.risk /\ memories'.updated = memories.updated
      /\ memories'.stale = IF alone /\ notes[s] = r.copy THEN memories.stale \ {s} ELSE memories.stale
  BY <1>1, <1>2
<1>5. memories'.miscounted = memories.miscounted
  BY <1>1, <1>2
<1>6. MemoryHistoryStays
  BY <1>2, <1>4, <1>5 DEF MemoryHistoryStays
<1> QED BY <1>1, <1>2, <1>3, <1>4, <1>6 DEF alone, r, s

LEMMA MemoryMarkdownKeeps ==
  ASSUME MemoryIInv, NEW w \in Scribes, Memory!Markdown(w)
  PROVE  MemoryIInv'
<1> DEFINE r == work[w]
           s == Head(r.dirs)
           alone == Memory!Holders(w, s) \cup Memory!Owing(w, s) = {}
<1>1. /\ r.step = "markdown" /\ s \in Memory!Places /\ UNCHANGED <<notes, bundle, ids>>
      /\ DOMAIN markdown' = Memory!Places
      /\ \A q \in Memory!Places : markdown'[q] = IF q = s THEN r.copy.entries ELSE markdown[q]
      /\ MemoryHistoryStays
      /\ memories'.stale = IF alone /\ notes[s] = r.copy THEN memories.stale \ {s} ELSE memories.stale
  BY MemoryMarkdownShows
<1>2. PICK j : MemoryLeaves(w, j) /\ j.step \notin MemoryBusy
  BY MemoryMarkdownLeaves
<1>3. MemoryFilesStay
  BY <1>1 DEF MemoryFilesStay
<1>4. \A v \in Scribes : work'[v] = IF v = w THEN j ELSE work[v]
  BY <1>2, MemoryReplaced DEF MemoryIInv, MemoryLeaves
<1>5. \A v \in Scribes : work'[v].step \in MemoryBusy => v # w /\ work'[v] = work[v]
  BY <1>2, <1>4
<1>6. Memory!Scope(w) = s
  BY DEF Memory!Scope
<1>7. MemoryShown'
  <2> SUFFICES ASSUME NEW q \in Memory!Places, q \notin memories'.stale
               PROVE  /\ \A v, x \in Scribes :
                           /\ v # x /\ work'[v].step \in MemoryBusy /\ work'[x].step \in MemoryBusy
                           => ~(Memory!Scope(v)' = q /\ Memory!Scope(x)' = q)
                      /\ \A v \in Scribes :
                           work'[v].step = "markdown" /\ Memory!Scope(v)' = q /\ notes'[q].status = "whole" =>
                             notes'[q].entries = work'[v].copy.entries
                      /\ /\ notes'[q].status = "whole"
                         /\ \A v \in Scribes : work'[v].step \in {"fill", "markdown"} => Memory!Scope(v)' # q
                         => markdown'[q] = notes'[q].entries
    BY DEF MemoryShown
  <2>1. \A v \in Scribes : work'[v].step \in MemoryBusy => Memory!Scope(v)' = Memory!Scope(v)
    BY <1>5 DEF Memory!Scope
  <2>2. CASE q \notin memories.stale
    <3>1. \A v, x \in Scribes :
            /\ v # x /\ work'[v].step \in MemoryBusy /\ work'[x].step \in MemoryBusy
            => ~(Memory!Scope(v)' = q /\ Memory!Scope(x)' = q)
      BY <1>5, <2>1, <2>2 DEF MemoryIInv, MemoryShown
    <3>2. \A v \in Scribes :
            work'[v].step = "markdown" /\ Memory!Scope(v)' = q /\ notes'[q].status = "whole" =>
              notes'[q].entries = work'[v].copy.entries
      BY <1>1, <1>5, <2>1, <2>2 DEF MemoryIInv, MemoryShown, MemoryBusy
    <3>3. ASSUME notes[q].status = "whole",
                 \A v \in Scribes : work'[v].step \in {"fill", "markdown"} => Memory!Scope(v)' # q
          PROVE  markdown'[q] = notes[q].entries
      <4>1. CASE q = s
        BY <1>1, <1>6, <2>2, <3>3, <4>1 DEF MemoryIInv, MemoryShown
      <4>2. CASE q # s
        <5>1. \A v \in Scribes : work[v].step \in {"fill", "markdown"} => Memory!Scope(v) # q
          BY <1>4, <1>6, <2>1, <3>3, <4>2 DEF MemoryBusy
        <5> QED BY <1>1, <2>2, <3>3, <4>2, <5>1 DEF MemoryIInv, MemoryShown
      <4> QED BY <4>1, <4>2
    <3> QED BY <1>1, <3>1, <3>2, <3>3
  <2>3. CASE q \in memories.stale
    <3>1. q = s /\ alone /\ notes[s] = r.copy
      BY <1>1, <2>3
    <3>2. \A v \in Scribes : ~(work'[v].step \in MemoryBusy /\ Memory!Scope(v)' = q)
      BY <1>5, <2>1, <3>1 DEF Memory!Holders, Memory!Owing, MemoryBusy
    <3>3. markdown'[q] = notes[q].entries
      BY <1>1, <3>1
    <3> QED BY <1>1, <3>2, <3>3 DEF MemoryBusy
  <2> QED BY <2>2, <2>3
<1> QED BY <1>1, <1>2, <1>3, <1>7, MemoryLeaveKeeps DEF MemoryIInv

LEMMA MemoryCrashKeeps ==
  ASSUME MemoryIInv, NEW w \in Scribes, Memory!Crash(w)
  PROVE  MemoryIInv'
<1> DEFINE s == Head(work[w].dirs)
           cut == work[w].step \in {"fill", "markdown"}
<1>1. /\ UNCHANGED <<notes, markdown, bundle, ids>> /\ work' = [work EXCEPT ![w] = Memory!Rest]
      /\ memories' = IF cut THEN [memories EXCEPT !.stale = @ \cup {s}] ELSE memories
  BY DEF Memory!Crash, Memory!Scope
<1>2. /\ DOMAIN memories = {"live", "risk", "updated", "stale", "miscounted"} /\ memories.miscounted = FALSE
      /\ DOMAIN markdown = Memory!Places
  BY DEF MemoryIInv, MemoryTyped, MemoryCounted
<1>3. MemoryFilesStay
  BY <1>1, <1>2 DEF MemoryFilesStay
<1> HIDE DEF s
<1>4. /\ DOMAIN memories' = DOMAIN memories
      /\ memories'.live = memories.live /\ memories'.risk = memories.risk /\ memories'.updated = memories.updated
      /\ memories'.stale = IF cut THEN memories.stale \cup {s} ELSE memories.stale
  BY <1>1, <1>2
<1>5. memories'.miscounted = memories.miscounted
  BY <1>1, <1>2
<1>6. MemoryHistoryStays
  BY <1>2, <1>4, <1>5 DEF MemoryHistoryStays
<1>7. MemoryLeaves(w, Memory!Rest) /\ Memory!Rest.step \notin MemoryBusy
  BY <1>1, MemoryRestLeaves
<1>8. \A v \in Scribes : work'[v] = IF v = w THEN Memory!Rest ELSE work[v]
  BY <1>1, MemoryReplaced DEF MemoryIInv
<1>9. MemoryShown'
  <2>1. \A v \in Scribes : work'[v].step \in MemoryBusy => work'[v] = work[v]
    BY <1>7, <1>8
  <2>2. \A v \in Scribes : work'[v].step \in MemoryBusy => Memory!Scope(v)' = Memory!Scope(v)
    BY <2>1 DEF Memory!Scope
  <2>3. ASSUME NEW q \in Memory!Places, q \notin memories'.stale
        PROVE  /\ q \notin memories.stale
               /\ \A v \in Scribes : work[v].step \in {"fill", "markdown"} /\ Memory!Scope(v) = q =>
                    work'[v] = work[v] /\ Memory!Scope(v)' = q
    BY <1>4, <1>8, <2>3 DEF Memory!Scope, s
  <2>4. ASSUME NEW q \in Memory!Places, q \notin memories'.stale, notes[q].status = "whole",
               \A v \in Scribes : work'[v].step \in {"fill", "markdown"} => Memory!Scope(v)' # q
        PROVE  markdown[q] = notes[q].entries
    <3>1. \A v \in Scribes : work[v].step \in {"fill", "markdown"} => Memory!Scope(v) # q
      BY <2>3, <2>4
    <3> QED BY <2>3, <2>4, <3>1 DEF MemoryIInv, MemoryShown
  <2> QED BY <1>1, <2>1, <2>2, <2>3, <2>4 DEF MemoryIInv, MemoryShown, MemoryBusy
<1> QED BY <1>3, <1>6, <1>7, <1>9, MemoryLeaveKeeps DEF MemoryIInv

(* The backup takes a file as it is.                                         *)
LEMMA MemoryExportKeeps ==
  ASSUME MemoryIInv, NEW s \in Memory!Places, Memory!Export(s)
  PROVE  MemoryIInv'
<1>1. bundle' = [bundle EXCEPT ![s] = notes[s]] /\ UNCHANGED <<notes, markdown, work, ids, memories>>
  BY DEF Memory!Export
<1>2. /\ DOMAIN bundle' = Memory!Places
      /\ \A q \in Memory!Places : bundle'[q] = bundle[q] \/ bundle'[q] = notes[q]
  BY <1>1 DEF MemoryIInv, MemoryTyped
<1>3. MemoryTyped'
  BY <1>1, <1>2 DEF MemoryIInv, MemoryTyped
<1>4. MemoryNumbered'
  BY <1>1, <1>2 DEF MemoryIInv, MemoryNumbered
<1>5. MemoryHeld' /\ MemoryContested'
  BY <1>1 DEF MemoryIInv, MemoryHeld, MemoryContested, Memory!Scope, Memory!Touched
<1>6. MemoryTwinless'
  BY <1>1, <1>2 DEF MemoryIInv, MemoryTwinless
<1>7. MemoryCounted' /\ MemoryShown'
  BY <1>1 DEF MemoryIInv, MemoryCounted, MemoryCounts, MemoryShown, Memory!Scope
<1> QED BY <1>3, <1>4, <1>5, <1>6, <1>7 DEF MemoryIInv

(* The user leaves out a comma.                                              *)
LEMMA MemoryHandEditKeeps ==
  ASSUME MemoryIInv, NEW s \in Memory!Places, Memory!HandEdit(s)
  PROVE  MemoryIInv'
<1>1. /\ notes' = [notes EXCEPT ![s] = Memory!Torn] /\ UNCHANGED <<markdown, work, bundle, ids>>
      /\ memories' = [memories EXCEPT !.stale = @ \cup {s}]
  BY DEF Memory!HandEdit
<1>2. MemoryTyped
  BY DEF MemoryIInv
<1>3. /\ DOMAIN memories' = DOMAIN memories
      /\ memories'.live = memories.live /\ memories'.risk = memories.risk /\ memories'.updated = memories.updated
      /\ memories'.stale = memories.stale \cup {s}
  BY <1>1, <1>2 DEF MemoryTyped
<1>4. memories'.miscounted = memories.miscounted
  BY <1>1, <1>2 DEF MemoryTyped
<1>5. /\ DOMAIN notes' = Memory!Places
      /\ \A q \in Memory!Places : notes'[q] = IF q = s THEN Memory!Torn ELSE notes[q]
  BY <1>1, <1>2, MemoryFileReplaced
<1>6. \A q \in Memory!Places :
        /\ notes'[q].entries = {} \/ notes'[q] = notes[q]
        /\ q = s => notes'[q].status = "torn"
        /\ q # s => notes'[q] = notes[q]
  BY <1>5, MemoryTornIs
<1>7. MemoryTyped'
  <2>1. \A q \in Memory!Places : MemoryIsFile(notes'[q])
    BY <1>2, <1>5, MemoryTornIs DEF MemoryTyped
  <2> QED BY <1>1, <1>2, <1>3, <1>5, <2>1 DEF MemoryTyped
<1>8. MemoryNumbered'
  BY <1>1, <1>6 DEF MemoryIInv, MemoryNumbered, MemoryBelow
<1>9. MemoryHeld'
  BY <1>1, <1>3, <1>6 DEF MemoryIInv, MemoryHeld, Memory!Scope
<1>10. MemoryContested'
  BY <1>1, <1>3 DEF MemoryIInv, MemoryContested, Memory!Scope, Memory!Touched
<1>11. MemoryTwinless'
  <2>1. \A R : MemorySingle({}, R)
    BY DEF MemorySingle
  <2> QED BY <1>1, <1>3, <1>6, <2>1 DEF MemoryIInv, MemoryTwinless
<1>12. MemoryCounted'
  <2> SUFFICES ASSUME NEW v \in Scribes, work[v].op = "import", work[v].alone
               PROVE  MemoryCounts(work[v])'
    BY <1>1, <1>4 DEF MemoryIInv, MemoryCounted, MemoryCounts
  <2>1. MemoryCounts(work[v]) /\ MemoryIsJob(work[v])
    BY DEF MemoryIInv, MemoryCounted, MemoryTyped
  <2>2. Head(work[v].dirs) \in Memory!Places
    BY <2>1 DEF MemoryIsJob
  <2>3. notes'[Head(work[v].dirs)].entries = {} \/ notes'[Head(work[v].dirs)] = notes[Head(work[v].dirs)]
    BY <1>6, <2>2
  <2> QED BY <1>1, <2>1, <2>3 DEF MemoryCounts, MemoryKnows
<1>13. MemoryShown'
  <2>1. \A q \in Memory!Places \ memories'.stale : q \notin memories.stale /\ notes'[q] = notes[q]
    BY <1>3, <1>6
  <2> QED BY <1>1, <2>1 DEF MemoryIInv, MemoryShown, Memory!Scope
<1> QED BY <1>7, <1>8, <1>9, <1>10, <1>11, <1>12, <1>13 DEF MemoryIInv

-----------------------------------------------------------------------------
LEMMA MemoryInitHolds == Memory!Init => MemoryIInv
<1> SUFFICES ASSUME Memory!Init PROVE MemoryIInv
  OBVIOUS
<1>1. /\ notes = [s \in Memory!Places |-> Memory!Absent] /\ markdown = [s \in Memory!Places |-> {}]
      /\ work = [w \in Scribes |-> Memory!Rest] /\ bundle = [s \in Memory!Places |-> Memory!Absent]
      /\ ids = 0 /\ memories = Memory!NoTruth
  BY DEF Memory!Init
<1>2. MemoryIsFile(Memory!Absent) /\ Memory!Absent.entries = {} /\ Memory!Absent.status = "absent"
  BY DEF Memory!Absent, MemoryIsFile
<1>3. /\ DOMAIN memories = {"live", "risk", "updated", "stale", "miscounted"}
      /\ memories.live = [s \in Memory!Places |-> {}] /\ memories.risk = {} /\ memories.miscounted = FALSE
  BY <1>1 DEF Memory!NoTruth
<1>4. \A w \in Scribes :
        /\ work[w] = Memory!Rest /\ MemoryIsJob(work[w]) /\ work[w].step = "idle" /\ work[w].op = "none"
        /\ work[w].copy.entries = {}
  BY <1>1, MemoryRests
<1>5. MemoryTyped
  BY <1>1, <1>2, <1>3, <1>4 DEF MemoryTyped
<1>6. MemoryNumbered
  BY <1>1, <1>2, <1>4 DEF MemoryNumbered, MemoryBelow
<1>7. MemoryHeld /\ MemoryContested
  BY <1>1, <1>2, <1>3, <1>4 DEF MemoryHeld, MemoryContested, MemoryAtWork
<1>8. MemoryTwinless
  BY <1>1, <1>2, <1>4 DEF MemoryTwinless, MemorySingle, MemoryAtWork
<1>9. MemoryCounted
  BY <1>3, <1>4 DEF MemoryCounted
<1>10. MemoryShown
  BY <1>1, <1>2, <1>4 DEF MemoryShown, MemoryBusy
<1> QED BY <1>5, <1>6, <1>7, <1>8, <1>9, <1>10 DEF MemoryIInv

LEMMA MemoryReadKeeps ==
  ASSUME MemoryIInv, NEW w \in Scribes, Memory!Read(w)
  PROVE  MemoryIInv'
<1>1. CASE \E e \in notes[Head(work[w].dirs)].entries : Memory!Same(e, work[w].text)
  BY <1>1, MemoryDuplicateKeeps
<1>2. CASE ~\E e \in notes[Head(work[w].dirs)].entries : Memory!Same(e, work[w].text)
  BY <1>2, MemoryReadHolds
<1> QED BY <1>1, <1>2

LEMMA MemoryNextKeeps ==
  ASSUME MemoryIInv, [Memory!Next]_Memory!vars
  PROVE  MemoryIInv'
<1>1. CASE \E w \in Scribes :
             \/ \E s \in Memory!Places, t \in Texts : Memory!Write(w, s, t)
             \/ \E id \in 1 .. MaxOps, t \in Texts : Memory!Change(w, "update", id, t)
             \/ \E id \in 1 .. MaxOps : Memory!Change(w, "delete", id, Mask)
             \/ \E s \in Memory!Places, c \in Memory!Candidates : Memory!Import(w, s, c)
             \/ Memory!Restore(w)
  BY <1>1, MemoryBeginKeeps
<1>2. CASE \E w \in Scribes : Memory!List(w) \/ Memory!NextCandidate(w) \/ Memory!Read(w) \/ Memory!Seek(w)
  BY <1>2, MemoryListKeeps, MemoryCandidateKeeps, MemoryReadKeeps, MemorySeekKeeps
<1>3. CASE \E w \in Scribes : Memory!Truncate(w) \/ Memory!Fill(w) \/ Memory!Markdown(w) \/ Memory!Crash(w)
  BY <1>3, MemoryTruncateKeeps, MemoryFillKeeps, MemoryMarkdownKeeps, MemoryCrashKeeps
<1>4. CASE \E w \in Scribes, overwrite \in BOOLEAN : Memory!RestoreFile(w, overwrite)
  BY <1>4, MemoryRestoreKeeps
<1>5. CASE \E s \in Memory!Places : Memory!Export(s) \/ Memory!HandEdit(s)
  BY <1>5, MemoryExportKeeps, MemoryHandEditKeeps
<1>6. CASE UNCHANGED Memory!vars
  <2>1. UNCHANGED <<notes, markdown, work, bundle, ids, memories>>
    BY <1>6 DEF Memory!vars
  <2>2. MemoryTyped' /\ MemoryNumbered' /\ MemoryTwinless'
    BY <2>1 DEF MemoryIInv, MemoryTyped, MemoryNumbered, MemoryTwinless
  <2>3. MemoryHeld' /\ MemoryContested'
    BY <2>1 DEF MemoryIInv, MemoryHeld, MemoryContested, Memory!Scope, Memory!Touched
  <2>4. MemoryCounted' /\ MemoryShown'
    BY <2>1 DEF MemoryIInv, MemoryCounted, MemoryCounts, MemoryShown, Memory!Scope
  <2> QED BY <2>2, <2>3, <2>4 DEF MemoryIInv
<1> QED BY <1>1, <1>2, <1>3, <1>4, <1>5, <1>6 DEF Memory!Next

LEMMA MemoryKeptNow == MemoryIInv => Memory!MemoryIsKept
<1> SUFFICES ASSUME MemoryIInv PROVE Memory!MemoryIsKept
  OBVIOUS
<1>1. Memory!EntriesAddUp
  BY DEF MemoryIInv, MemoryHeld, MemoryUpTo, Memory!EntriesAddUp
<1>2. Memory!NoTwins
  BY DEF MemoryIInv, MemoryTwinless, MemorySingle, Memory!NoTwins
<1>3. Memory!ImportsAddUp
  BY DEF MemoryIInv, MemoryCounted, Memory!ImportsAddUp
<1>4. Memory!MarkdownAgrees
  BY DEF MemoryIInv, MemoryShown, Memory!MarkdownAgrees
<1> QED BY <1>1, <1>2, <1>3, <1>4 DEF Memory!MemoryIsKept

-----------------------------------------------------------------------------
(* The composition: a behaviour of the parts is one of each part.            *)

LEMMA AllStep ==
  [Next]_vars => /\ [Config!Next]_Config!vars /\ [Cli!Next]_Cli!vars
                 /\ [Provider!Next]_Provider!vars /\ [Memory!Next]_Memory!vars
<1>1. UNCHANGED configVars => UNCHANGED Config!vars
  BY DEF configVars, Config!vars
<1>2. UNCHANGED cliVars => UNCHANGED Cli!vars
  BY DEF cliVars, Cli!vars
<1>3. UNCHANGED providerVars => UNCHANGED Provider!vars
  BY DEF providerVars, Provider!vars
<1>4. UNCHANGED memoryVars => UNCHANGED Memory!vars
  BY DEF memoryVars, Memory!vars
<1>5. CASE UNCHANGED vars
  BY <1>1, <1>2, <1>3, <1>4, <1>5 DEF vars
<1>6. CASE Next
  BY <1>1, <1>2, <1>3, <1>4, <1>6 DEF Next
<1> QED BY <1>5, <1>6

LEMMA Assumed == ConfigKeysApart /\ CliHasVersions
BY PlatformAssumption DEF ConfigKeysApart, CliHasVersions

LEMMA ConfigInvariant == Spec => []ConfigIInv
<1>1. Init => ConfigIInv
  BY ConfigInitHolds, Assumed DEF Init
<1>2. ConfigIInv /\ [Next]_vars => ConfigIInv'
  BY ConfigNextKeeps, Assumed, AllStep
<1> QED BY <1>1, <1>2, PTL DEF Spec

LEMMA CliInvariant == Spec => []CliIInv
<1>1. Init => CliIInv
  BY CliInitHolds DEF Init
<1>2. CliIInv /\ [Next]_vars => CliIInv'
  BY CliNextKeeps, Assumed, AllStep
<1> QED BY <1>1, <1>2, PTL DEF Spec

(* No save puts the mask of a key in the place of the key, and none that was *)
(* acknowledged takes back or loses a part another one saved, for any keys,  *)
(* profiles and pool entries and any number of requests, as long as no two   *)
(* overlap and no writer dies (server/configStore.ts,                        *)
(* server/routes/config.ts).                                                 *)
THEOREM SavesCorrect == Spec => []SavesAreExact
<1>1. ConfigIInv => SavesAreExact
  BY ConfigGoodIsNoMask DEF SavesAreExact
<1> QED BY <1>1, ConfigInvariant, PTL

(* The state of an update keeps the values its module gives it               *)
(* (core/selfUpdate.ts).                                                     *)
THEOREM UpdateTyped == Spec => []CliTypeOK
<1>1. CliIInv => CliTypeOK
  BY DEF CliIInv
<1> QED BY <1>1, CliInvariant, PTL

(* Whatever dies, fails or overlaps, the binary is a whole release, and      *)
(* without either web/ is of the same (commands/update.ts,                   *)
(* core/selfUpdate.ts).                                                      *)
THEOREM InstallCorrect == Spec => []InstallIsWhole
<1>1. CliIInv => InstallIsWhole
  BY CliIsWhole DEF InstallIsWhole
<1> QED BY <1>1, CliInvariant, PTL

(* Saving a dialog nobody touched changes nothing, when nobody else wrote    *)
(* since it was loaded; and no update that was not forced installs an older  *)
(* release than the one it finds, unless two overlapped                      *)
(* (server/configStore.ts, core/selfUpdate.ts).                              *)
THEOREM NothingTakenBack == Spec => NothingIsTakenBack
<1>1. ConfigIInv /\ CliIInv /\ [Next]_vars => Config!UntouchedSave /\ Cli!Forward
  BY ConfigSaveTakesNothingBack, CliGoesForward, Assumed, AllStep
<1> QED BY <1>1, ConfigInvariant, CliInvariant, PTL DEF Spec, NothingIsTakenBack

(* A streamed answer is one attempt's text, shown once and from its          *)
(* beginning, whatever is refused, redirected, dropped, retried or aborted;  *)
(* and round-robin gives the enabled entries of a pool of any size the same  *)
(* number of calls, give or take one (providers/retry.ts,                    *)
(* providers/pool.ts).                                                       *)
THEOREM RetriesCorrect == Spec => []RetriesAreSafe
<1>1. Init => ProviderIInv
  BY ProviderInitHolds DEF Init
<1>2. ProviderIInv /\ [Next]_vars => ProviderIInv'
  BY ProviderNextKeeps, AllStep
<1>3. ProviderIInv => RetriesAreSafe
  BY ProviderIsSafe DEF RetriesAreSafe
<1> QED BY <1>1, <1>2, <1>3, PTL DEF Spec

(* However writes, changes, imports, backups and restores of the local       *)
(* memory overlap, and whatever is cut off: its files hold what the          *)
(* operations promised but for what overlapped or could not be read, no      *)
(* content is there twice but by an update or an overlap, an import nobody   *)
(* disturbed counts what it added, and MEMORY.md shows the entries unless a  *)
(* race or a crash came between (memory/store.ts, memory/importers.ts,       *)
(* data/archive.ts).                                                         *)
THEOREM MemoryCorrect == Spec => []MemoryIsKept
<1>1. Init => MemoryIInv
  BY MemoryInitHolds DEF Init
<1>2. MemoryIInv /\ [Next]_vars => MemoryIInv'
  BY MemoryNextKeeps, AllStep
<1>3. MemoryIInv => MemoryIsKept
  BY MemoryKeptNow DEF MemoryIsKept
<1> QED BY <1>1, <1>2, <1>3, PTL DEF Spec
=============================================================================
