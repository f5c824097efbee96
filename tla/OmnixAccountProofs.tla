-------------------------- MODULE OmnixAccountProofs --------------------------
(***************************************************************************)
(* Proofs about OmnixAccount for every set of configurations.              *)
(*                                                                         *)
(* The composition implements OmnixLifecycle step by step, so that what is *)
(* proved of that holds of this.  AccountInv follows a session: nothing is *)
(* there before the set-up; the filter knows the password from the copy to *)
(* the close; the user agent is what the configuration asks for; and a     *)
(* loaded stun module is recorded.                                         *)
(***************************************************************************)
EXTENDS OmnixAccount, OmnixLifecycleProofs

BeforeSetup == {"down", "events", "create", "ask", "wait", "account"}

AccountInv ==
    /\ pc \in BeforeSetup => agent = NoAgent /\ modules = {}
    /\ pc \in BeforeSetup /\ ~checked => secret = NoName
    /\ pc = "down" => ~logHandler
    /\ pc \notin {"down", "close"} => logHandler
    /\ secret # NoName => logHandler
    /\ checked => /\ pc = "account" /\ pw_copy = config.sip_password
                  /\ secret = pw_copy /\ BuildsAor(config)
    /\ ~checked => pw_copy = NoName
    /\ agent # NoAgent => logHandler /\ secret = agent.auth_pass
    /\ uaSet => pc = "up"
    /\ "stun" \in modules => stunLoaded
    /\ pc = "up" => UpIsConfigured

-----------------------------------------------------------------------------
\* Every step of the composition is a step of the life cycle, or none of it.
LEMMA StepRefines == [SetupNext]_setupVars => [Next]_vars
<1> SUFFICES ASSUME [SetupNext]_setupVars PROVE [Next]_vars
  OBVIOUS
<1>1. CASE Begin
  BY <1>1 DEF Begin, Next
<1>2. CASE RefuseConfig
  BY <1>2 DEF RefuseConfig, Next, AppStep
<1>3. CASE CheckConfig
  BY <1>3 DEF CheckConfig
<1>4. ASSUME NEW n \in 0..Len(Steps), SetUp(n) PROVE Next
  BY <1>4 DEF SetUp, Next, AppStep
<1>5. CASE StopUsing
  BY <1>5 DEF StopUsing, Next
<1>6. CASE HandleNext
  BY <1>6 DEF HandleNext, Next
<1>7. CASE CloseAll
  BY <1>7 DEF CloseAll, Next, AppStep
<1>8. CASE Elsewhere
  BY <1>8 DEF Elsewhere, Next, AppStep, ReStep
<1>9. CASE UNCHANGED setupVars
  BY <1>9 DEF setupVars
<1> QED
  BY <1>1, <1>2, <1>3, <1>4, <1>5, <1>6, <1>7, <1>8, <1>9
  DEF SetupNext, SetUpStep

\* The detailed life cycle, with its account, implements the one without.
THEOREM ImplementsLifecycle == SetupSpec => Spec
<1>1. SetupInit => Init
  BY DEF SetupInit
<1> QED BY <1>1, StepRefines, PTL DEF SetupSpec, Spec

\* The configurations, and what they are turned into.
LEMMA ConfigFacts ==
    ASSUME config \in Configs, pw_copy \in MaybeName, NEW done
    PROVE  /\ config.sip_password \in MaybeName
           /\ Account(done) \in Agents /\ Account(done) # NoAgent
           /\ Usable(config) \subseteq Compiled
<1>1. /\ config.sip_user \in MaybeName /\ config.domain \in MaybeName
      /\ config.server \in MaybeName /\ config.auth_user \in MaybeName
      /\ config.sip_password \in MaybeName /\ config.display_name \in MaybeName
      /\ config.codecs \in SUBSET Codecs
  BY ConfigAssumption
<1>2. Aor(config) \in SUBSET MaybeName
  BY <1>1 DEF Aor, Domain, MaybeName
<1>3. Usable(config) \in SUBSET Codecs /\ Usable(config) \subseteq Compiled
  BY <1>1, CodecAssumption DEF Usable
<1>4. AuthUser(config) \in MaybeName /\ NoName \in MaybeName
  BY <1>1 DEF AuthUser, MaybeName
<1>5. Account(done) \in Agents
  BY <1>1, <1>2, <1>3, <1>4 DEF Account, Agents
<1> QED BY <1>1, <1>3, <1>5, AgentAssumption

-----------------------------------------------------------------------------
\* Every step keeps the types.
LEMMA SetupTypeStep == SetupTypeOK /\ [SetupNext]_setupVars => SetupTypeOK'
<1> SUFFICES ASSUME SetupTypeOK, [SetupNext]_setupVars PROVE SetupTypeOK'
  OBVIOUS
<1>0. TypeOK'
  BY StepRefines, TypeStep DEF SetupTypeOK
<1> USE <1>0 DEF SetupTypeOK
<1>1. CASE Begin
  BY <1>1 DEF Begin
<1>2. CASE RefuseConfig
  BY <1>2 DEF RefuseConfig
<1>3. CASE CheckConfig
  <2>1. config.sip_password \in MaybeName
    BY ConfigFacts
  <2> QED BY <1>3, <2>1 DEF CheckConfig
<1>4. ASSUME NEW n \in 0..Len(Steps), SetUp(n) PROVE SetupTypeOK'
  <2> DEFINE Done == {Steps[i] : i \in {j \in 1..n : ~Skips(Steps[j])}}
             complete == n = Len(Steps)
  <2>1. /\ IF complete THEN agent' = Account(Done) ELSE agent' = NoAgent
        /\ uaSet' = complete /\ stunLoaded' = ("stun" \in Done)
        /\ modules' = modules \cup (Done \cap {"dtls_srtp", "g711", "stun"})
        /\ checked' = FALSE /\ pw_copy' = NoName
        /\ UNCHANGED <<config, secret, logHandler>>
    BY <1>4 DEF SetUp
  <2> HIDE DEF Done
  <2>2. agent' \in Agents \cup {NoAgent}
    BY <2>1, ConfigFacts
  <2>3. complete \in BOOLEAN /\ ("stun" \in Done) \in BOOLEAN
    OBVIOUS
  <2> HIDE DEF complete
  <2>4. uaSet' \in BOOLEAN /\ stunLoaded' \in BOOLEAN
    BY <2>1, <2>3, Zenon
  <2> QED BY <2>1, <2>2, <2>4 DEF MaybeName
<1>5. CASE StopUsing
  BY <1>5 DEF StopUsing
<1>6. CASE HandleNext
  BY <1>6 DEF HandleNext
<1>7. CASE CloseAll
  BY <1>7 DEF CloseAll, MaybeName
<1>8. CASE Elsewhere
  BY <1>8 DEF Elsewhere, accountVars
<1>9. CASE UNCHANGED setupVars
  BY <1>9 DEF setupVars, accountVars
<1> QED
  BY <1>1, <1>2, <1>3, <1>4, <1>5, <1>6, <1>7, <1>8, <1>9
  DEF SetupNext, SetUpStep

\* A set-up of which every step succeeds makes the account that was asked for.
LEMMA CompleteSetUp ==
    ASSUME SetupTypeOK, AccountInv, SetUp(Len(Steps))
    PROVE  UpIsConfigured' /\ agent' # NoAgent /\ agent'.auth_pass = pw_copy
<1> DEFINE Done == {Steps[i] : i \in {j \in 1..Len(Steps) : ~Skips(Steps[j])}}
<1>1. /\ checked /\ agent' = Account(Done) /\ uaSet'
      /\ modules' = modules \cup (Done \cap {"dtls_srtp", "g711", "stun"})
      /\ \A i \in 1..Len(Steps) : ~Rejects(Steps[i])
      /\ config' = config
  BY DEF SetUp
<1>2. Len(Steps) = 11 /\ \A i \in 1..11 : i \in 1..Len(Steps)
  BY DEF Steps
<1>3. /\ {"dtls_srtp", "g711", "auth_pass", "mediaenc", "codecs"} \subseteq Done
      /\ ("medianat" \in Done) <=> (config.stun_server # "none")
      /\ ("stun" \in Done) <=> (config.stun_server # "none")
  <2>1. \A s : s \in Done <=> \E i \in 1..11 : s = Steps[i] /\ ~Skips(s)
    BY <1>2
  <2>2. /\ Steps[1] = "dtls_srtp" /\ Steps[2] = "g711" /\ Steps[5] = "auth_pass"
        /\ Steps[6] = "mediaenc" /\ Steps[7] = "codecs" /\ Steps[9] = "stun"
        /\ Steps[10] = "medianat"
    BY DEF Steps
  <2> HIDE DEF Done
  <2>3. /\ 1 \in 1..11 /\ 2 \in 1..11 /\ 5 \in 1..11 /\ 6 \in 1..11
        /\ 7 \in 1..11 /\ 9 \in 1..11 /\ 10 \in 1..11
    OBVIOUS
  <2> QED BY <2>1, <2>2, <2>3 DEF Skips
<1>4. Usable(config) # {}
  <2>1. ~Rejects(Steps[7]) /\ Steps[7] = "codecs"
    BY <1>1, <1>2 DEF Steps
  <2> QED BY <2>1 DEF Rejects
<1> HIDE DEF Done
<1>5. /\ config.sip_password \in MaybeName /\ agent' \in Agents
      /\ agent' # NoAgent /\ Usable(config) \subseteq Compiled
  BY <1>1, ConfigFacts DEF SetupTypeOK
<1>6. /\ pw_copy = config.sip_password /\ config.sip_password \notin Aor(config)
  BY <1>1 DEF AccountInv, BuildsAor
<1>7. /\ agent'.mediaenc = "dtls_srtp" /\ agent'.codecs = Usable(config)
      /\ agent'.auth_pass = pw_copy /\ agent'.aor = Aor(config)
      /\ agent'.medianat = "stun" <=> "medianat" \in Done
  BY <1>1, <1>3 DEF Account
<1>8. {"dtls_srtp", "g711"} \subseteq modules' /\ ("stun" \in Done => "stun" \in modules')
  BY <1>1, <1>3
<1> QED BY <1>1, <1>3, <1>4, <1>5, <1>6, <1>7, <1>8 DEF UpIsConfigured

-----------------------------------------------------------------------------
\* A step of the life cycle that has no part in the account.
LEMMA ElsewhereStep ==
    ASSUME TypeOK, LifeInv, AccountInv, Elsewhere
    PROVE  AccountInv'
<1>1. UNCHANGED accountVars
  BY DEF Elsewhere
<1>2. UNCHANGED UpIsConfigured \/ pc' # pc
  BY <1>1 DEF accountVars, UpIsConfigured
<1>3. /\ pc' = pc \/ <<pc, pc'>> \in
            {<<"events", "create">>, <<"events", "close">>, <<"create", "ask">>,
             <<"create", "close">>, <<"ask", "wait">>, <<"wait", "account">>,
             <<"wait", "stop">>, <<"stop", "join">>, <<"join", "close">>}
  BY DEF Elsewhere, EventsInit, CreateThread, AskReady, Sleep, Await, AppNotify,
         Stop, Join, ReMain, Loop, Emit, EmitPush
<1>4. CASE pc' = pc
  BY <1>1, <1>4 DEF AccountInv, BeforeSetup, accountVars, BuildsAor, Aor, Domain,
                    UpIsConfigured
<1>5. CASE pc' # pc
  BY <1>1, <1>3, <1>5 DEF AccountInv, BeforeSetup, accountVars, BuildsAor, Aor, Domain
<1> QED BY <1>4, <1>5

\* Every step keeps the account, the filter and the modules in agreement with
\* the place of omnix_init and omnix_shutdown.
LEMMA AccountStep ==
    SetupTypeOK /\ LifeInv /\ AccountInv /\ [SetupNext]_setupVars => AccountInv'
<1> SUFFICES ASSUME SetupTypeOK, LifeInv, AccountInv, [SetupNext]_setupVars
             PROVE  AccountInv'
  OBVIOUS
<1> USE DEF BeforeSetup
<1>1. CASE Begin
  BY <1>1 DEF AccountInv, Begin, InitBegin
<1>2. CASE RefuseConfig
  BY <1>2 DEF AccountInv, RefuseConfig, AccountSetup
<1>3. CASE CheckConfig
  <2>1. /\ pc = "account" /\ pc' = pc /\ agent = NoAgent /\ modules = {}
        /\ secret = NoName /\ logHandler /\ BuildsAor(config) /\ ~uaSet
        /\ UNCHANGED <<config, logHandler, agent, uaSet, modules>>
        /\ checked' /\ pw_copy' = config.sip_password
        /\ secret' = IF config.sip_password = NoName THEN secret
                                                     ELSE config.sip_password
    BY <1>3 DEF CheckConfig, vars, AccountInv
  <2>2. BuildsAor(config)' /\ secret' = pw_copy'
    BY <2>1 DEF BuildsAor, Aor, Domain
  <2> QED BY <2>1, <2>2 DEF AccountInv
<1>4. ASSUME NEW n \in 0..Len(Steps), SetUp(n) PROVE AccountInv'
  <2> DEFINE Done == {Steps[i] : i \in {j \in 1..n : ~Skips(Steps[j])}}
  <2>1. /\ pc = "account" /\ checked
        /\ IF n = Len(Steps) THEN pc' = "up" /\ agent' = Account(Done)
                             ELSE pc' = "stop" /\ agent' = NoAgent
        /\ uaSet' = (n = Len(Steps)) /\ stunLoaded' = ("stun" \in Done)
        /\ modules' = modules \cup (Done \cap {"dtls_srtp", "g711", "stun"})
        /\ checked' = FALSE /\ pw_copy' = NoName
        /\ UNCHANGED <<config, secret, logHandler>>
    BY <1>4 DEF SetUp, AccountSetup
  <2>2. n = Len(Steps) =>
            UpIsConfigured' /\ agent'.auth_pass = pw_copy
    BY <1>4, CompleteSetUp
  <2> HIDE DEF Done
  <2>3. logHandler /\ secret = pw_copy /\ modules = {}
    BY <2>1 DEF AccountInv
  <2>4. "stun" \in modules' => stunLoaded'
    BY <2>1, <2>3
  <2> QED BY <2>1, <2>2, <2>3, <2>4 DEF AccountInv
<1>5. CASE StopUsing
  BY <1>5 DEF AccountInv, StopUsing, ShutdownBegin
<1>6. CASE HandleNext
  <2>1. pc \in Unstopped => agent' = agent
    BY <1>6, TailFacts DEF HandleNext, Handle, LifeInv, SetupTypeOK
  <2>2. /\ pc' = pc /\ agent' \in {agent, NoAgent}
        /\ UNCHANGED <<config, checked, pw_copy, secret, logHandler, uaSet,
                       modules, stunLoaded>>
    BY <1>6 DEF HandleNext, Handle
  <2>3. pc = "up" => UpIsConfigured'
    BY <2>1, <2>2 DEF AccountInv, UpIsConfigured, Unstopped, Joinable
  <2> QED BY <2>2, <2>3 DEF AccountInv, BuildsAor, Aor, Domain
<1>7. CASE CloseAll
  <2>1. secret' = NoName /\ modules' = {} /\ ~checked /\ ~checked'
        /\ pw_copy' = NoName /\ pc' = "down" /\ ~logHandler' /\ agent' = NoAgent
        /\ ~uaSet'
    BY <1>7 DEF CloseAll, Close, AccountInv, SetupTypeOK
  <2> QED BY <2>1 DEF AccountInv
<1>8. CASE Elsewhere
  BY <1>8, ElsewhereStep DEF SetupTypeOK
<1>9. CASE UNCHANGED setupVars
  BY <1>9 DEF setupVars, vars, accountVars, AccountInv, BuildsAor, Aor, Domain,
              UpIsConfigured
<1> QED
  BY <1>1, <1>2, <1>3, <1>4, <1>5, <1>6, <1>7, <1>8, <1>9
  DEF SetupNext, SetUpStep

\* Before the first session nothing is there.
LEMMA SetupInitHolds == SetupInit => SetupTypeOK /\ LifeInv /\ AccountInv
<1> SUFFICES ASSUME SetupInit PROVE SetupTypeOK /\ LifeInv /\ AccountInv
  OBVIOUS
<1>1. TypeOK /\ LifeInv
  BY InitHolds DEF SetupInit
<1>2. SetupTypeOK
  BY <1>1 DEF SetupInit, SetupTypeOK, MaybeName
<1>3. AccountInv
  BY DEF SetupInit, Init, AccountInv, BeforeSetup
<1> QED BY <1>1, <1>2, <1>3

\* The three invariants hold together.
LEMMA SetupInductive == SetupSpec => [](SetupTypeOK /\ LifeInv /\ AccountInv)
<1>1. SetupTypeOK /\ LifeInv /\ AccountInv /\ [SetupNext]_setupVars
        => (SetupTypeOK /\ LifeInv /\ AccountInv)'
  BY SetupTypeStep, AccountStep, StepRefines, LifeStep DEF SetupTypeOK
<1> QED BY <1>1, SetupInitHolds, PTL DEF SetupSpec

\* The account, the filter and the modules stay in their types, and so does
\* the life cycle under them (omnix_account.c, omnix_voice.c).
THEOREM SetupTypeCorrect == SetupSpec => []SetupTypeOK
BY SetupInductive, PTL

\* An application that is told OK has the account it configured, for every
\* set of configurations and of compiled codecs (omnix_account.c:364-537).
THEOREM UpAlwaysConfigured == SetupSpec => []UpIsConfigured
<1>1. AccountInv => UpIsConfigured
  BY DEF AccountInv, UpIsConfigured
<1> QED BY <1>1, SetupInductive, PTL

\* The pointer to the user agent never outlives it (omnix_account.c:539-552).
THEOREM UaAlwaysAlive == SetupSpec => []UaIsAlive
<1>1. AccountInv => UaIsAlive
  <2> SUFFICES ASSUME AccountInv, uaSet PROVE agent # NoAgent
    BY DEF UaIsAlive
  <2>1. agent \in Agents
    BY DEF AccountInv, UpIsConfigured
  <2> QED BY <2>1, AgentAssumption
<1> QED BY <1>1, SetupInductive, PTL

\* Whatever the password is, it is hidden from the log while a copy of it is
\* held (omnix_log.c:71-124).
THEOREM SecretAlwaysHidden == SetupSpec => []SecretIsHidden
<1>1. AccountInv => SecretIsHidden
  <2> SUFFICES ASSUME AccountInv, NEW p \in Names,
                      p = pw_copy \/ (agent # NoAgent /\ p = agent.auth_pass)
               PROVE  logHandler /\ secret = p
    BY DEF SecretIsHidden
  <2>1. p # NoName
    BY NameAssumption
  <2> QED BY <2>1 DEF AccountInv
<1> QED BY <1>1, SetupInductive, PTL

\* A session leaves no module, password or user agent to the next one
\* (omnix_voice.c:179-201, omnix_account.c:554-566).
THEOREM DownAlwaysClean == SetupSpec => []DownIsClean
<1>1. AccountInv => DownIsClean
  BY DEF AccountInv, DownIsClean, BeforeSetup
<1> QED BY <1>1, SetupInductive, PTL
=============================================================================
