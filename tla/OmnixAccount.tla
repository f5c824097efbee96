----------------------------- MODULE OmnixAccount -----------------------------
(***************************************************************************)
(* omnix_account_setup and its undoing (omnix_account.c), the filter that  *)
(* hides the password in the log (omnix_log.c), and the modules a session  *)
(* loads, woven into the actions of OmnixLifecycle: every step here is a   *)
(* step of omnix_init, omnix_shutdown or the re thread, or stutters there. *)
(*                                                                         *)
(* The set-up is two steps: what it does before it takes the re lock, and  *)
(* the block under the lock, which the re thread sees whole.  A string of  *)
(* the configuration is a name; the AOR is the set of names in it.         *)
(***************************************************************************)
EXTENDS OmnixLifecycle

CONSTANTS
    Configs,   \* the configurations omnix_init is called with
    Names,     \* user names, hosts, passwords
    NoName,    \* an empty string, or a string with no host in it
    Codecs,    \* the codec names a configuration may list
    Compiled,  \* the codecs that are registered
    NoAgent

ASSUME NameAssumption == NoName \notin Names

DefaultCodecs == {"opus", "pcmu", "pcma"}   \* OMNIX_CODECS_DEFAULT

ASSUME CodecAssumption == DefaultCodecs \subseteq Codecs

MaybeName   == Names \cup {NoName}
StunServers == {"none", "stun", "turn"}   \* "stun": a stun URI, or a bare host

ASSUME ConfigAssumption ==
    Configs \subseteq
        [sip_user : MaybeName,     \* the part before '@'
         domain   : MaybeName,     \* the part after it
         server   : MaybeName,     \* the host of sip_server
         auth_user : MaybeName, sip_password : MaybeName,
         display_name : MaybeName,
         codecs : SUBSET Codecs, stun_server : StunServers]

VARIABLES
    config,     \* what omnix_init was called with last
    checked,    \* omnix_account_setup is about to take the re lock
    pw_copy,    \* Omnix's own copy of the password
    secret,     \* g_secret: what the log filter hides
    logHandler, \* g_log_registered
    agent,      \* the user agent baresip has, with its account
    uaSet,      \* g_state.ua # NULL
    modules,    \* loaded modules
    stunLoaded  \* g_stun_module_loaded

accountVars == <<config, checked, pw_copy, secret, logHandler, agent, uaSet,
                 modules, stunLoaded>>
setupVars   == <<vars, accountVars>>

Agents == [aor : SUBSET MaybeName, auth_user : MaybeName, auth_pass : MaybeName,
           mediaenc : {"none", "dtls_srtp"}, codecs : SUBSET Codecs,
           medianat : {"none", "stun"}, outbound : MaybeName]

ASSUME AgentAssumption == NoAgent \notin Agents

SetupTypeOK ==
    /\ TypeOK
    /\ config \in Configs /\ checked \in BOOLEAN
    /\ pw_copy \in MaybeName /\ secret \in MaybeName
    /\ logHandler \in BOOLEAN
    /\ agent \in Agents \cup {NoAgent} /\ uaSet \in BOOLEAN
    /\ modules \subseteq {"dtls_srtp", "g711", "stun"} /\ stunLoaded \in BOOLEAN

SetupInit ==
    /\ Init
    /\ config \in Configs /\ checked = FALSE
    /\ pw_copy = NoName /\ secret = NoName /\ logHandler = FALSE
    /\ agent = NoAgent /\ uaSet = FALSE
    /\ modules = {} /\ stunLoaded = FALSE

-----------------------------------------------------------------------------
(* The configuration, read.                                                *)

\* omnix_parse_user_domain: the domain of sip_user, or else the server's host.
Domain(c) == IF c.domain # NoName THEN c.domain ELSE c.server

Aor(c) == {c.display_name, c.sip_user, Domain(c)} \ {NoName}

\* omnix_build_aor: both parts are there and the password is in neither.
BuildsAor(c) ==
    /\ c.sip_user # NoName /\ Domain(c) # NoName
    /\ c.sip_password \notin Aor(c)

\* omnix_account_apply_codecs: the listed codecs, or the default ones, that
\* are registered.
Usable(c) == (IF c.codecs = {} THEN DefaultCodecs ELSE c.codecs) \cap Compiled

AuthUser(c) == IF c.auth_user # NoName THEN c.auth_user ELSE c.sip_user

-----------------------------------------------------------------------------
(* omnix_account_setup.                                                    *)

\* The steps under the lock, in their order; each may fail.
Steps == <<"dtls_srtp", "g711", "ua_alloc", "auth_user", "auth_pass",
           "mediaenc", "codecs", "stun_uri", "stun", "medianat", "outbound">>

\* omnix_normalize_stun_uri, omnix_account_apply_codecs: what must fail.
Rejects(step) ==
    \/ step = "codecs" /\ Usable(config) = {}
    \/ step = "stun_uri" /\ config.stun_server = "turn"

\* Steps that do nothing under this configuration.
Skips(step) == step \in {"stun", "medianat"} /\ config.stun_server = "none"

\* The account after the given steps.
Account(done) ==
    [aor       |-> Aor(config),
     auth_user |-> IF "auth_user" \in done THEN AuthUser(config) ELSE NoName,
     auth_pass |-> IF "auth_pass" \in done THEN pw_copy ELSE NoName,
     mediaenc  |-> IF "mediaenc" \in done THEN "dtls_srtp" ELSE "none",
     codecs    |-> IF "codecs" \in done THEN Usable(config) ELSE {},
     medianat  |-> IF "medianat" \in done THEN "stun" ELSE "none",
     outbound  |-> IF "outbound" \in done THEN config.server ELSE NoName]

\* An AOR that cannot be built, or a password that cannot be copied, ends the
\* set-up at once.
RefuseConfig ==
    /\ AccountSetup /\ pc' = "stop" /\ ~checked
    /\ BuildsAor(config) => config.sip_password # NoName
    /\ uaSet' = FALSE
    /\ UNCHANGED <<config, checked, pw_copy, secret, logHandler, agent, modules,
                   stunLoaded>>

\* Mutant: the filter is told after the account.
CheckConfigUnfiltered ==
    /\ pc = "account" /\ ~checked /\ BuildsAor(config)
    /\ checked' = TRUE
    /\ pw_copy' = config.sip_password
    /\ stunLoaded' = FALSE
    /\ UNCHANGED <<vars, config, secret, logHandler, agent, uaSet, modules>>

\* ... or the password is copied and the filter told, before the lock.
CheckConfig ==
    /\ pc = "account" /\ ~checked /\ BuildsAor(config)
    /\ checked' = TRUE
    /\ pw_copy' = config.sip_password
    /\ secret' = IF config.sip_password = NoName THEN secret ELSE config.sip_password
    /\ stunLoaded' = FALSE
    /\ UNCHANGED <<vars, config, logHandler, agent, uaSet, modules>>

\* Mutant: a codec list or STUN URI that is refused does not end the set-up.
SetUpLenient(n) ==
    LET Done == {Steps[i] : i \in {j \in 1..n : ~Skips(Steps[j]) /\ ~Rejects(Steps[j])}}
        Complete == n = Len(Steps)
    IN  /\ AccountSetup /\ checked
        /\ IF Complete THEN pc' = "up" /\ agent' = Account(Done)
                    ELSE pc' = "stop" /\ agent' = NoAgent
        /\ uaSet' = Complete
        /\ modules' = modules \cup (Done \cap {"dtls_srtp", "g711", "stun"})
        /\ stunLoaded' = ("stun" \in Done)
        /\ checked' = FALSE /\ pw_copy' = NoName
        /\ UNCHANGED <<config, secret, logHandler>>

\* The block under the lock: n steps succeed.  Unless that is all of them
\* the user agent is freed again, and omnix_init shuts down.  Omnix's copy
\* of the password is wiped in any case.
SetUp(n) ==
    LET Done == {Steps[i] : i \in {j \in 1..n : ~Skips(Steps[j])}}
        Complete == n = Len(Steps)
    IN  /\ AccountSetup /\ checked
        /\ \A i \in 1..n : ~Rejects(Steps[i])
        /\ IF Complete THEN pc' = "up" /\ agent' = Account(Done)
                       ELSE pc' = "stop" /\ agent' = NoAgent
        /\ uaSet' = Complete
        /\ modules' = modules \cup (Done \cap {"dtls_srtp", "g711", "stun"})
        /\ stunLoaded' = ("stun" \in Done)
        /\ checked' = FALSE /\ pw_copy' = NoName
        /\ UNCHANGED <<config, secret, logHandler>>

-----------------------------------------------------------------------------
(* The rest of the life cycle.                                             *)

\* The log handler is registered once baresip is up, before the queue.
Begin ==
    /\ InitBegin
    /\ config' \in Configs
    /\ logHandler' \in (IF pc' = "events" THEN {TRUE} ELSE {TRUE, FALSE})
    /\ UNCHANGED <<checked, pw_copy, secret, agent, uaSet, modules, stunLoaded>>

\* Mutant: omnix_account_teardown is left to the close.
StopUsingLate == ShutdownBegin /\ UNCHANGED accountVars

\* omnix_account_teardown: the pointer goes, the user agent stays.
StopUsing ==
    /\ ShutdownBegin
    /\ uaSet' = FALSE
    /\ UNCHANGED <<config, checked, pw_copy, secret, logHandler, agent, modules,
                   stunLoaded>>

\* SHUTDOWN makes ua_stop_all destroy the user agent, now or, if something
\* else still refers to it, when the stack is closed.
HandleNext ==
    /\ Handle
    /\ \/ UNCHANGED agent
       \/ Head(mq) = "shutdown" /\ agent' = NoAgent
    /\ UNCHANGED <<config, checked, pw_copy, secret, logHandler, uaSet, modules,
                   stunLoaded>>

\* Mutant: the modules of the account in use are unloaded, not the loaded ones.
CloseInUse ==
    /\ Close
    /\ logHandler' = FALSE
    /\ secret' = IF logHandler THEN NoName ELSE secret
    /\ modules' = modules \ ({"g711", "dtls_srtp"} \cup
                             IF uaSet THEN {"stun"} ELSE {})
    /\ stunLoaded' = FALSE
    /\ agent' = NoAgent
    /\ UNCHANGED <<config, checked, pw_copy, uaSet>>

\* omnix_log_handler_unregister, omnix_account_unload_modules, ua_close.
CloseAll ==
    /\ Close
    /\ logHandler' = FALSE
    /\ secret' = IF logHandler THEN NoName ELSE secret
    /\ modules' = modules \ ({"g711", "dtls_srtp"} \cup
                             IF stunLoaded THEN {"stun"} ELSE {})
    /\ stunLoaded' = FALSE
    /\ agent' = NoAgent
    /\ UNCHANGED <<config, checked, pw_copy, uaSet>>

\* What the account has no part in.
Elsewhere ==
    /\ \/ EventsInit \/ CreateThread \/ AskReady \/ Sleep \/ Await
       \/ AppNotify \/ Stop \/ Join \/ ReMain \/ Loop \/ Emit \/ EmitPush
    /\ UNCHANGED accountVars

SetUpStep == RefuseConfig \/ CheckConfig \/ \E n \in 0..Len(Steps) : SetUp(n)

SetupNext == Begin \/ SetUpStep \/ StopUsing \/ HandleNext \/ CloseAll \/ Elsewhere

\* As in OmnixLifecycle: both threads are scheduled, the queue is read.
AppGoesOn == SetUpStep \/ CloseAll \/ (Elsewhere /\ AppStep)
SetupFairness == /\ WF_setupVars(AppGoesOn)
                 /\ WF_setupVars(Elsewhere /\ ReStep)
                 /\ SF_setupVars(HandleNext)

SetupSpec     == SetupInit /\ [][SetupNext]_setupVars
SetupFairSpec == SetupSpec /\ SetupFairness

-----------------------------------------------------------------------------
(* Correctness.                                                            *)

\* An application that is told OK has the whole account it configured, and
\* no other: encrypted media, a codec that exists, STUN exactly if it asked
\* for it, and no password in the AOR.  No failing step of the set-up, in
\* this session or an earlier one, is taken for a success
\* (omnix_account.c:364-537).
UpIsConfigured ==
    pc = "up" =>
        /\ uaSet /\ agent \in Agents
        /\ agent.mediaenc = "dtls_srtp" /\ {"dtls_srtp", "g711"} \subseteq modules
        /\ agent.codecs # {} /\ agent.codecs \subseteq Compiled
        /\ (agent.medianat = "stun") <=> (config.stun_server # "none")
        /\ agent.medianat = "stun" => "stun" \in modules
        /\ agent.auth_pass = config.sip_password
        /\ agent.auth_pass \notin agent.aor

\* g_state.ua is no dangling pointer, although the re thread destroys the
\* user agent while omnix_shutdown runs (omnix_account.c:539-552).
UaIsAlive == uaSet => agent # NoAgent

\* As long as Omnix or the account holds the password, a message that is
\* logged passes the filter that hides it (omnix_log.c:71-124).
SecretIsHidden ==
    \A p \in Names :
        p = pw_copy \/ (agent # NoAgent /\ p = agent.auth_pass)
            => logHandler /\ secret = p

\* A session leaves nothing to the next one, however it ended: no module
\* that could not be registered again, no password, no user agent
\* (omnix_voice.c:179-201, omnix_account.c:554-566).
DownIsClean ==
    pc = "down" => /\ agent = NoAgent /\ ~uaSet /\ modules = {}
                   /\ pw_copy = NoName /\ secret = NoName /\ ~logHandler
=============================================================================
