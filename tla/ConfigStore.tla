---------------------------- MODULE ConfigStore ----------------------------
(* The configuration file (server/configStore.ts) and everyone who rewrites  *)
(* it: the server's routes (server/routes/config.ts) behind the web dialog   *)
(* (LLMConfigModal.tsx, lib/client.ts), `dvalincode provider`                *)
(* (commands/provider.ts) and the first-run set-up of the terminal client    *)
(* (tui/app.ts).  Each reads the whole file, changes a part of it and writes *)
(* the whole file back: it is emptied and then filled, and nobody locks it.  *)
(* The dialog holds keys it has never seen: it shows a mask for them and     *)
(* sends the mask back.                                                      *)
EXTENDS Naturals, FiniteSets

CONSTANTS
  Providers,    \* providers that need a key
  First,        \* the one a missing file defaults to
  Keys,         \* API keys somebody types
  Names,        \* profiles
  Ids,          \* entries of the provider pool
  MaxRequests   \* bound: requests

VARIABLES
  file,         \* whether the file can be parsed, and its content
  req,          \* per writer: its request under way
  dialog,       \* what the web dialog shows and has edited
  requests,
  expected,     \* history: what the requests acknowledged so far add up to
  spoiled       \* history: two requests overlapped, or a writer died

vars == <<file, req, dialog, requests, expected, spoiled>>

Writers == {"dialog", "other"}

(* A provider with its credentials.  A key that is not there is "none", and  *)
(* a field left empty "blank"; what matters of `keySource` is whether the    *)
(* key is kept here.                                                         *)
Account(provider, key, stored) == [provider |-> provider, key |-> key, stored |-> stored]

Defaults == [llm |-> Account(First, "none", TRUE), profiles |-> [n \in Names |-> {}],
             pool |-> [e \in Ids |-> {}], mcp |-> FALSE]

Masked(a) == [a EXCEPT !.key = IF @ = "none" THEN "none" ELSE "mask"]
KeyField(a) == [a EXCEPT !.key = IF @ = "none" THEN "blank" ELSE "mask"]

Idle == [step |-> "idle", op |-> "none", next |-> Defaults, raced |-> FALSE, asShown |-> FALSE]
Fresh == [draft |-> Account(First, "blank", TRUE), profiles |-> [n \in Names |-> {}],
          seen |-> Names, asShown |-> FALSE]

Init ==
  /\ \E k \in {"none"} \cup Keys : file = [whole |-> TRUE, cfg |-> [Defaults EXCEPT !.llm.key = k, !.mcp = TRUE]]
  /\ req = [w \in Writers |-> Idle] /\ dialog = Fresh /\ requests = 0
  /\ expected = file.cfg /\ spoiled = FALSE

(* readConfig: whatever cannot be read or parsed is the defaults.            *)
Read == IF file.whole THEN file.cfg ELSE Defaults

-----------------------------------------------------------------------------
(* The routes and commands, as functions of the configuration they read.     *)

(* Mutant: the mask is taken for a key.                                      *)
PersistableAsSent(sent, existing) ==
  IF ~sent.stored THEN "none"
  ELSE IF sent.key = "none" /\ existing # {} THEN (CHOOSE a \in existing : TRUE).key
  ELSE IF sent.key = "blank" THEN "none" ELSE sent.key

(* persistableApiKey.                                                        *)
PersistableApiKey(sent, existing) ==
  IF ~sent.stored THEN "none"
  ELSE IF sent.key \in {"mask", "none"}
  THEN IF existing = {} THEN "none" ELSE (CHOOSE a \in existing : TRUE).key
  ELSE IF sent.key = "blank" THEN "none" ELSE sent.key

Kept(sent, existing) == [sent EXCEPT !.key = PersistableApiKey(sent, existing)]

(* Mutant: the request's part is written without the others.                 *)
SaveLlmAlone(cfg, sent) == [Defaults EXCEPT !.llm = Kept(sent, {cfg.llm})]

SaveLlm(cfg, sent) == [cfg EXCEPT !.llm = Kept(sent, {cfg.llm})]

SaveProfile(cfg, name, sent) ==
  LET existing == IF cfg.profiles[name] # {} THEN cfg.profiles[name]
                  ELSE {a \in {cfg.llm} : a.provider = sent.provider}
  IN  [cfg EXCEPT !.profiles[name] = {Kept(sent, existing)}]

DeleteProfile(cfg, name) == [cfg EXCEPT !.profiles[name] = {}]
ApplyProfile(cfg, name) == [cfg EXCEPT !.llm = CHOOSE p \in cfg.profiles[name] : TRUE]

SavePool(cfg, id, sent) == [cfg EXCEPT !.pool[id] = {Kept(s, cfg.pool[id]) : s \in sent}]

(* `provider set` and `provider key set`.                                    *)
SetProvider(cfg, provider, option) ==
  LET same == cfg.llm.provider = provider
  IN  [cfg EXCEPT !.llm =
         CASE option = "gateway" -> Account(provider, "none", FALSE)
           [] option \in Keys -> Account(provider, option, TRUE)
           [] OTHER -> IF same THEN cfg.llm ELSE Account(provider, "none", TRUE)]

(* ensureConfigured: the file is written anew, with `llm` alone.             *)
SetUp(provider, key) == [Defaults EXCEPT !.llm = Account(provider, key, TRUE)]

-----------------------------------------------------------------------------
Submit(w, op, next, asShown) ==
  /\ req[w].step = "idle" /\ requests < MaxRequests
  /\ requests' = requests + 1
  /\ req' = [req EXCEPT ![w] = [step |-> "read", op |-> op, next |-> next, raced |-> FALSE, asShown |-> asShown]]
  /\ spoiled' = (spoiled \/ \E v \in Writers : req[v].step # "idle")
  /\ UNCHANGED <<file, expected>>

Truncate(w) ==
  /\ req[w].step = "read"
  /\ req' = [req EXCEPT ![w].step = "emptied"]
  /\ file' = [file EXCEPT !.whole = FALSE]
  /\ UNCHANGED <<dialog, requests, expected, spoiled>>

(* A writer that fills a file another has filled since it was emptied leaves *)
(* the other's tail behind its own text, when that was the longer.           *)
Fill(w) ==
  /\ req[w].step = "emptied"
  /\ req' = [v \in Writers |-> IF v = w THEN Idle ELSE [req[v] EXCEPT !.raced = @ \/ req[v].step = "emptied"]]
  /\ \E whole \in {TRUE} \cup {~req[w].raced} : file' = [whole |-> whole, cfg |-> req[w].next]
  /\ expected' = LET n == req[w].next
                 IN  CASE req[w].op \in {"llm", "apply"} -> [expected EXCEPT !.llm = n.llm]
                       [] req[w].op = "profiles" -> [expected EXCEPT !.profiles = n.profiles]
                       [] req[w].op = "pool" -> [expected EXCEPT !.pool = n.pool]
                       [] req[w].op = "all" -> n
  /\ UNCHANGED <<dialog, requests, spoiled>>

(* A command is interrupted, or the server stops, before the file is filled. *)
Die(w) ==
  /\ req[w].step = "emptied"
  /\ req' = [req EXCEPT ![w] = Idle]
  /\ spoiled' = TRUE
  /\ UNCHANGED <<file, dialog, requests, expected>>

-----------------------------------------------------------------------------
(* The dialog.                                                               *)

DialogIdle == req["dialog"].step = "idle"

(* It loads the configuration and the profiles; a fetch that fails leaves    *)
(* what it starts with.                                                      *)
Open(answered) ==
  /\ DialogIdle /\ requests < MaxRequests
  /\ dialog' = IF ~answered THEN Fresh
               ELSE [draft |-> KeyField(Read.llm),
                     profiles |-> [n \in Names |-> {Masked(p) : p \in Read.profiles[n]}],
                     seen |-> Names, asShown |-> ~spoiled /\ req["other"].step = "idle"]
  /\ UNCHANGED <<file, req, requests, expected, spoiled>>

(* An edit touches nothing the others see: it is taken while nobody writes.  *)
Edit(draft) ==
  /\ \A w \in Writers : req[w].step = "idle"
  /\ requests < MaxRequests /\ draft # dialog.draft
  /\ dialog' = [dialog EXCEPT !.draft = draft, !.asShown = FALSE]
  /\ UNCHANGED <<file, req, requests, expected, spoiled>>

SelectProvider(p) == Edit(Account(p, "blank", TRUE))
SelectSource(stored) == Edit([dialog.draft EXCEPT !.stored = stored, !.key = IF stored THEN @ ELSE "none"])
TypeKey(key) == dialog.draft.stored /\ Edit([dialog.draft EXCEPT !.key = key])

SaveDraft ==
  /\ Submit("dialog", "llm", SaveLlm(Read, dialog.draft), dialog.asShown)
  /\ UNCHANGED dialog

SaveDraftAs(name) ==
  LET sent == [dialog.draft EXCEPT !.key = IF ~dialog.draft.stored \/ @ = "blank" THEN "none" ELSE @]
  IN  /\ Submit("dialog", "profiles", SaveProfile(Read, name, sent), FALSE)
      /\ dialog' = [dialog EXCEPT !.profiles[name] = {sent}, !.seen = @ \ {name}]

(* A profile the dialog saved itself is shown as it was sent, not as the     *)
(* server kept it.                                                           *)
Apply(name) ==
  /\ Read.profiles[name] # {}
  /\ Submit("dialog", "apply", ApplyProfile(Read, name), FALSE)
  /\ dialog' = IF dialog.profiles[name] = {} THEN dialog
               ELSE LET p == CHOOSE p \in dialog.profiles[name] : TRUE
                    IN  [dialog EXCEPT !.draft = [p EXCEPT !.key = IF @ = "none" THEN "blank" ELSE @],
                                       !.asShown = dialog.asShown /\ name \in dialog.seen]

Delete(name) ==
  /\ Read.profiles[name] # {}
  /\ Submit("dialog", "profiles", DeleteProfile(Read, name), FALSE)
  /\ dialog' = [dialog EXCEPT !.profiles[name] = {}]

(* What a row of the pool tab can hold; its provider makes no difference.    *)
Shown == {Account(First, key, TRUE) : key \in {"blank", "mask"} \cup Keys} \cup {Account(First, "none", FALSE)}

(* The pool tab: an entry is kept as it was shown, edited or removed.        *)
SavePoolTab(id, sent) ==
  /\ \A s \in sent : s.key = "mask" => Masked(s) \in {Masked(p) : p \in Read.pool[id]}
  /\ Submit("dialog", "pool", SavePool(Read, id, sent), FALSE)
  /\ UNCHANGED dialog

-----------------------------------------------------------------------------
(* Another writer changes what the dialog shows behind its back.             *)
Behind == dialog' = [dialog EXCEPT !.asShown = FALSE]

Command(provider, option) ==
  /\ Submit("other", "llm", SetProvider(Read, provider, option), FALSE) /\ Behind

(* The terminal client starts: its set-up runs when it finds no stored key.  *)
FirstRun(provider, key) ==
  /\ Read.llm.key = "none"
  /\ Submit("other", "all", SetUp(provider, key), ~Read.llm.stored) /\ Behind

Next ==
  \/ \E w \in Writers : Truncate(w) \/ Fill(w) \/ Die(w)
  \/ \E b \in BOOLEAN : Open(b) \/ SelectSource(b)
  \/ \E p \in Providers : SelectProvider(p)
  \/ \E k \in {"blank"} \cup Keys : TypeKey(k)
  \/ SaveDraft
  \/ \E n \in Names : SaveDraftAs(n) \/ Apply(n) \/ Delete(n)
  \/ \E e \in Ids, sent \in {{}} \cup {{a} : a \in Shown} : SavePoolTab(e, sent)
  \/ \E p \in Providers, o \in {"none", "gateway"} \cup Keys : Command(p, o)
  \/ \E p \in Providers, k \in {"none"} \cup Keys : FirstRun(p, k)

Spec == Init /\ [][Next]_vars

-----------------------------------------------------------------------------
Written ==
  {file.cfg.llm} \cup (UNION {file.cfg.profiles[n] : n \in Names}) \cup (UNION {file.cfg.pool[e] : e \in Ids})

(* The mask stands for a key and never becomes one, through whatever the     *)
(* dialog saves, applies and saves again, with other writers in between.     *)
MaskIsNoKey == \A a \in Written : a.key # "mask"

(* As long as no two requests overlap and no writer dies, the file is what   *)
(* the requests acknowledged so far add up to: none takes back or loses a    *)
(* part another one saved.                                                   *)
SavesAddUp == ~spoiled /\ file.whole => file.cfg = expected

(* Saving the dialog as it was loaded, or after applying a profile it had    *)
(* loaded, changes nothing, when nobody else wrote in between.               *)
UntouchedSave ==
  \A w \in Writers : req[w].step = "emptied" /\ req[w].asShown /\ req[w].op = "llm" /\ ~spoiled /\ file'.whole
     => file'.cfg = expected
UntouchedSaveChangesNothing == [][UntouchedSave]_vars

(* "First-run: if no API key is available" (tui/app.ts): the set-up does not *)
(* run for a provider whose key is kept somewhere else.                      *)
SetUpIsFirstRun == \A w \in Writers : req[w].op = "all" => ~req[w].asShown

(* No save puts the mask in the place of a key or takes back what another    *)
(* one saved.                                                                *)
SavesAreExact == MaskIsNoKey /\ SavesAddUp
=============================================================================
