---------------------------- MODULE Administration ----------------------------
(***************************************************************************)
(* Administration: the tables that all services share and administrators   *)
(* fill.  Every process that starts creates the tables, adds the columns a *)
(* later release brought, and ingestion-api seeds the two vocabularies if  *)
(* they are empty; nothing but the database's own constraints keeps two of *)
(* them apart.  Once one serves, administrators change the vocabularies    *)
(* (the levels are module Access) and the one row of settings that every   *)
(* page of the portal shows: the classification banner, the theme, the     *)
(* application's name and the notice before login.                         *)
(*                                                                         *)
(* A setting's request reads the row, assigns, and commits together with   *)
(* its audit entry.  The commit writes the columns whose value differs     *)
(* from what the request has read, and no others.                          *)
(***************************************************************************)
EXTENDS Access, Sequences

CONSTANTS
    Replicas,    \* processes of ingestion-api
    Configs,     \* values of CLASSIFICATION_LEVELS, as lists of a level and its rank
    Added,       \* columns that create_all does not add to a table that exists
    Admins,      \* one request for a setting at a time each
    Texts,       \* of a marking, a theme, a name or a notice
    Blank,       \* the empty one
    MaxRequests  \* bound: requests for settings

ASSUME AdministrationAssumption ==
    /\ Configs \subseteq Seq(Levels \X (0 .. MaxRank))
    /\ Blank \in Texts /\ None \notin Texts \cup Added \cup Configs
    /\ None \notin [rank : 0 .. MaxRank, active : BOOLEAN]
    /\ \A columns \in SUBSET Added : columns # None
    /\ MaxRequests \in Nat

\* A setting without a rule of its own stands for those like it: app_name for logo_url,
\* and the notice's text for its title and its button.
Forms == [
    banner   |-> [text : Texts, level : Texts, active : BOOLEAN],
    theme    |-> [theme : Texts],
    branding |-> [app_name : Texts],
    login    |-> [login_popup_text : Texts, login_popup_active : BOOLEAN]]

Unset == [text |-> Blank, level |-> Blank, active |-> FALSE, theme |-> Blank, app_name |-> Blank,
          login_popup_text |-> Blank, login_popup_active |-> FALSE]

\* The row of settings, and what audit entries say of it.
Settings == [DOMAIN Unset -> Texts \cup BOOLEAN]

ASSUME SettingsAssumption == None \notin Settings

VARIABLES
    config,    \* what the deployment configures; None with SEED_DEFAULT_VOCAB=false
    tables,    \* None before create_all, then the added columns the tables have
    boot,      \* of each replica: where its start is
    saw,       \* of each replica: what its start has read
    caveats,   \* releasability_values: whether a value is active, or None without a row
    settings,  \* the row of portal_settings, or None
    request,   \* of each administrator: the request for a setting, or None
    requests,  \* requests so far
    logged,    \* what the last audit entry of each form says
    mixed      \* history: the forms last saved over a row that had been read before another save

startup == <<config, tables, boot, saw>>
portal  == <<settings, request, requests, logged, mixed>>
adminvars == <<avars, startup, caveats, portal>>

AdminInit ==
    /\ vocab = [k \in Levels |-> None] /\ row = [d \in Docs |-> None]
    /\ changes = 0 /\ signed = [d \in Docs |-> None]
    /\ config \in Configs \cup {None}
    /\ tables \in {None} \cup SUBSET Added
    /\ boot = [p \in Replicas |-> "down"] /\ saw = [p \in Replicas |-> None]
    /\ caveats = [v \in Caveats |-> None]
    /\ settings = None /\ request = [a \in Admins |-> None] /\ requests = 0
    /\ logged = Unset /\ mixed = {}

-----------------------------------------------------------------------------
(* db.py: init_db; main.py: _seed_defaults *)

At(p, place) == boot[p] = place

Go(p, place, read) ==
    /\ boot' = [boot EXCEPT ![p] = place]
    /\ saw' = [saw EXCEPT ![p] = read]

\* create_all looks for the tables first.
Start(p) ==
    /\ At(p, "down")
    /\ Go(p, "creating", tables = None)
    /\ UNCHANGED <<avars, config, tables, caveats, portal>>

\* A table that exists by now ends the process; so does, below, a column or a value.
CreateTables(p) ==
    /\ At(p, "creating")
    /\ IF saw[p] /\ tables # None THEN Go(p, "down", None) ELSE Go(p, "inspecting", None)
    /\ tables' = IF tables = None THEN Added ELSE tables
    /\ UNCHANGED <<avars, config, caveats, portal>>

Inspect(p) ==
    /\ At(p, "inspecting")
    /\ Go(p, "adding", Added \ tables)
    /\ UNCHANGED <<avars, config, tables, caveats, portal>>

\* One transaction for each column.
AddColumn(p) ==
    /\ At(p, "adding")
    /\ \E c \in saw[p] :
          /\ IF c \in tables THEN Go(p, "down", None) ELSE Go(p, "adding", saw[p] \ {c})
          /\ tables' = tables \cup {c}
    /\ UNCHANGED <<avars, config, caveats, portal>>

\* Ranks order the clearances: no two levels may share one.
Refused(entries) ==
    \/ entries = <<>>
    \/ \E i, j \in DOMAIN entries :
          i # j /\ (entries[i][1] = entries[j][1] \/ entries[i][2] = entries[j][2])

Parsed(entries) ==
    [k \in Levels |->
        IF \E i \in DOMAIN entries : entries[i][1] = k
        THEN [rank |-> (entries[CHOOSE i \in DOMAIN entries : entries[i][1] = k])[2],
              active |-> TRUE]
        ELSE None]

\* Each vocabulary is seeded if it has no row, not even a retired one. The process does
\* not start with a configuration that is refused.
LookForVocabulary(p) ==
    /\ At(p, "adding") /\ saw[p] = {}
    /\ \/ config = None /\ Go(p, "up", None)
       \/ config # None /\ Refused(config) /\ Go(p, "down", None)
       \/ /\ config # None /\ ~Refused(config)
          /\ Go(p, "seeding", [levels  |-> \A k \in Levels : vocab[k] = None,
                               caveats |-> \A v \in Caveats : caveats[v] = None])
    /\ UNCHANGED <<avars, config, tables, caveats, portal>>

\* Mutant of Seed: what is there by now is overwritten.
SeedOver(p) ==
    /\ At(p, "seeding")
    /\ Go(p, "up", None)
    /\ vocab' = IF saw[p].levels THEN Parsed(config) ELSE vocab
    /\ caveats' = IF saw[p].caveats THEN [v \in Caveats |-> TRUE] ELSE caveats
    /\ UNCHANGED <<row, changes, signed, config, tables, portal>>

\* Both in one transaction; a value is unique.
Seed(p) ==
    /\ At(p, "seeding")
    /\ LET levels == Parsed(config)
           fails == \/ saw[p].levels /\ \E k \in Levels : levels[k] # None /\ vocab[k] # None
                    \/ saw[p].caveats /\ \E v \in Caveats : caveats[v] # None
       IN  /\ Go(p, IF fails THEN "down" ELSE "up", None)
           /\ vocab' = [k \in Levels |-> IF ~fails /\ saw[p].levels /\ levels[k] # None
                                         THEN levels[k] ELSE vocab[k]]
           /\ caveats' = IF ~fails /\ saw[p].caveats THEN [v \in Caveats |-> TRUE] ELSE caveats
    /\ UNCHANGED <<row, changes, signed, config, tables, portal>>

\* A process dies at any point of its start, or later.
Crash(p) ==
    /\ boot[p] # "down"
    /\ Go(p, "down", None)
    /\ UNCHANGED <<avars, config, tables, caveats, portal>>

Serving == "up" \in {boot[p] : p \in Replicas}

-----------------------------------------------------------------------------
(* admin.py: the vocabulary of releasability *)

OfferCaveat(v) ==
    /\ Serving /\ changes < MaxChanges
    /\ changes' = changes + 1
    /\ caveats' = [caveats EXCEPT ![v] = TRUE]
    /\ UNCHANGED <<vocab, row, signed, startup, portal>>

RetireCaveat(v) ==
    /\ Serving /\ changes < MaxChanges
    /\ caveats[v] # None
    /\ changes' = changes + 1
    /\ caveats' = [caveats EXCEPT ![v] = FALSE]
    /\ UNCHANGED <<vocab, row, signed, startup, portal>>

-----------------------------------------------------------------------------
(* admin.py: the settings *)

\* An empty marking is not active, nor an empty notice.
Cleaned(body) ==
    CASE "active" \in DOMAIN body -> [body EXCEPT !.active = @ /\ body.text # Blank]
      [] "login_popup_active" \in DOMAIN body ->
            [body EXCEPT !.login_popup_active = @ /\ body.login_popup_text # Blank]
      [] OTHER -> body

Ask(a) ==
    /\ Serving /\ requests < MaxRequests
    /\ request[a] = None
    /\ requests' = requests + 1
    /\ \E f \in DOMAIN Forms : \E body \in Forms[f] :
          request' = [request EXCEPT ![a] =
              [form |-> f, body |-> Cleaned(body), at |-> "loading", loaded |-> None, stale |-> FALSE]]
    /\ UNCHANGED <<avars, startup, caveats, settings, logged, mixed>>

Asked(a, place) == request[a] # None /\ request[a].at = place

\* _load_banner, first the row as it is, ...
LoadSettings(a) ==
    /\ Asked(a, "loading")
    /\ request' = [request EXCEPT ![a] =
           IF settings = None THEN [@ EXCEPT !.at = "creating"]
           ELSE [@ EXCEPT !.at = "saving", !.loaded = settings]]
    /\ UNCHANGED <<avars, startup, caveats, settings, requests, logged, mixed>>

\* ... then, if there was none, a new one, which is committed and read back; it has the
\* key 1, and the request fails if there is one by now.
CreateSettings(a) ==
    /\ Asked(a, "creating")
    /\ settings' = IF settings = None THEN Unset ELSE settings
    /\ request' = [request EXCEPT ![a] =
           IF settings = None THEN [@ EXCEPT !.at = "loading"] ELSE None]
    /\ UNCHANGED <<avars, startup, caveats, requests, logged, mixed>>

\* Mutant of Written: every column is written, as it was read.
WrittenWhole(a) ==
    LET r == request[a] IN
    [c \in DOMAIN settings |-> IF c \in DOMAIN r.body THEN r.body[c] ELSE r.loaded[c]]

\* The columns whose value has changed against what was read.
Written(a) ==
    LET r == request[a] IN
    [c \in DOMAIN settings |->
        IF c \in DOMAIN r.body /\ r.body[c] # r.loaded[c] THEN r.body[c] ELSE settings[c]]

\* Row and audit entry in one commit.
SaveSettings(a) ==
    LET f == request[a].form
        overtaken(b) == b # a /\ Asked(b, "saving") /\ request[b].form = f
    IN
    /\ Asked(a, "saving")
    /\ settings' = Written(a)
    /\ logged' = [c \in DOMAIN logged |->
                    IF c \in DOMAIN request[a].body THEN request[a].body[c] ELSE logged[c]]
    /\ mixed' = IF request[a].stale THEN mixed \cup {f} ELSE mixed \ {f}
    /\ request' = [b \in Admins |-> IF b = a THEN None
                                    ELSE IF overtaken(b) THEN [request[b] EXCEPT !.stale = TRUE]
                                    ELSE request[b]]
    /\ UNCHANGED <<avars, startup, caveats, requests>>

\* A commit fails, or the process that serves the request dies.
Abandon(a) ==
    /\ request[a] # None
    /\ request' = [request EXCEPT ![a] = None]
    /\ UNCHANGED <<avars, startup, caveats, settings, requests, logged, mixed>>

-----------------------------------------------------------------------------
(* main.py: what every page shows *)

\* What a form's columns make a page show, for the row or for what was logged.
Shown(f, s) ==
    CASE f = "banner"   -> IF s.active /\ s.text # Blank THEN <<s.text, s.level>> ELSE None
      [] f = "theme"    -> s.theme
      [] f = "branding" -> s.app_name
      [] f = "login"    -> IF s.login_popup_active THEN s.login_popup_text ELSE Blank

Page(f) == Shown(f, IF settings = None THEN Unset ELSE settings)

-----------------------------------------------------------------------------
\* The requests of module Access, which the same processes serve.
Use ==
    /\ Serving
    /\ AccessNext
    /\ UNCHANGED <<startup, caveats, portal>>

Starting(p) ==
    \/ Start(p) \/ CreateTables(p) \/ Inspect(p) \/ AddColumn(p)
    \/ LookForVocabulary(p) \/ Seed(p) \/ Crash(p)

Setting(a) == Ask(a) \/ LoadSettings(a) \/ CreateSettings(a) \/ SaveSettings(a) \/ Abandon(a)

Administer ==
    \/ \E p \in Replicas : Starting(p)
    \/ \E v \in Caveats : OfferCaveat(v) \/ RetireCaveat(v)
    \/ \E a \in Admins : Setting(a)

AdminNext == Use \/ Administer

AdminSpec == AdminInit /\ [][AdminNext]_adminvars

-----------------------------------------------------------------------------
AdminTypeOK ==
    /\ AccessTypeOK
    /\ config \in Configs \cup {None}
    /\ tables \in {None} \cup SUBSET Added
    /\ boot \in [Replicas -> {"down", "creating", "inspecting", "adding", "seeding", "up"}]
    /\ caveats \in [Caveats -> {None} \cup BOOLEAN]
    /\ settings \in Settings \cup {None} /\ logged \in Settings
    /\ \A a \in Admins : request[a] # None => request[a].form \in DOMAIN Forms
    /\ requests \in 0 .. MaxRequests
    /\ mixed \subseteq DOMAIN Forms

\* A start, however many of them race and fail half way, gives a service whole tables and
\* a vocabulary in which no two levels share a rank, and leaves alone what administrators
\* have changed since the first: without a change of theirs levels only come into a
\* vocabulary that had none.
StartsKeepTheVocabulary ==
    [][/\ \A p \in Replicas : boot[p] # "up" /\ boot'[p] = "up" =>
             tables' = Added /\ (config # None => \E k \in Levels : vocab'[k] # None)
       /\ changes' = changes /\ vocab' # vocab =>
             /\ \A k \in Levels : vocab[k] = None
             /\ \A j, k \in Levels : j # k /\ vocab'[j] # None /\ vocab'[k] # None =>
                   vocab'[j].rank # vocab'[k].rank
       /\ changes' = changes /\ caveats' # caveats =>
             \A v \in Caveats : caveats[v] = None]_adminvars

\* The audit log answers what the portal displayed: every page shows what the last entry
\* of each form says, whoever uses the other forms meanwhile, unless that form was last
\* saved over a row that was read before somebody else saved it.
PagesShowTheLog ==
    \A f \in DOMAIN Forms \ mixed : Page(f) = Shown(f, logged)

===============================================================================
