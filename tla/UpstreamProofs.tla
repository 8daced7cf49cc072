--------------------------- MODULE UpstreamProofs ---------------------------
(***************************************************************************)
(* What the configuration of Settings comes to, and the ways to reach a    *)
(* server and the child processes of Upstream.  Its states are finite in   *)
(* number: a run visits them all, and the proofs add the reasons.  Those   *)
(* for the configuration are in two parts: every step leaves what the      *)
(* sources determine (Determined), and that is what the properties say.    *)
(***************************************************************************)
EXTENDS Upstream, TLAPS

LEMMA OptionKinds ==
    /\ (Numbers \cup Durations) \cap (Names \cup Choices \cup Booleans) = {}
    /\ (Names \cup Choices) \cap Booleans = {}
    /\ Names \cap Choices = {}
    /\ ReadEarly \subseteq Booleans /\ FlagOnly = Durations
    /\ Options = Names \cup Choices \cup Numbers \cup Durations \cup Booleans
    /\ "TARGET_PORT" \in Numbers /\ "MAX_CONNECTIONS" \in Numbers
    /\ "STATUS_FLUSH_SEC" \in Numbers /\ "CLOUDFLARED" \in ReadEarly
BY DEF Names, Choices, Numbers, Durations, Booleans, ReadEarly, FlagOnly, Options

LEMMA TextsAreTexts == TextsOf(option) \subseteq Texts
BY DEF TextsOf, Texts, Words

LEMMA BuiltInFound ==
    /\ BuiltIn \in Found /\ Unset \in Found
    /\ BuiltIn.from = "program" /\ Usable(BuiltIn.is)
    /\ option \in Booleans => BuiltIn.is \in Words
    /\ option \notin Booleans => BuiltIn.is = "good"
BY DEF BuiltIn, Unset, Found, Origins, Texts, Words, Usable

LEMMA GetEnvFound ==
    ASSUME environ \in Found, NEW otherwise \in Found
    PROVE  GetEnv(option, otherwise) \in Found
BY DEF GetEnv, Found, Origins, Texts, Words

LEMMA FromAndIs == \A from \in Origins, is \in Texts : [from |-> from, is |-> is] \in Found
BY DEF Found

LEMMA InitTypes == Init => UpstreamTypeOK
<1> SUFFICES ASSUME Init PROVE UpstreamTypeOK
  OBVIOUS
<1>1. flagText \in Texts /\ envText \in Texts /\ fileText \in Texts /\ cfText \in Texts
  BY TextsAreTexts DEF Init, SettingsInit, Texts
<1>2. environ \in Found
  BY <1>1, FromAndIs DEF Init, SettingsInit, Origins
<1>3. SettingsTypeOK
  BY <1>1, <1>2, BuiltInFound DEF Init, SettingsInit, SettingsTypeOK
<1>4. NoServer \in Server /\ NoServer.AuthMethod # "password"
  BY DEF NoServer, Server
<1> QED
  BY <1>3, <1>4 DEF Init, UpstreamTypeOK

LEMMA SettingsTypes ==
    ASSUME SettingsTypeOK, SettingsNext
    PROVE  SettingsTypeOK'
<1>1. /\ environ \in Found /\ default \in Found /\ value \in Found
      /\ BuiltIn \in Found /\ Unset \in Found
  BY BuiltInFound DEF SettingsTypeOK
<1>2. GetEnv(option, BuiltIn) \in Found /\ GetEnv(option, value) \in Found
  BY <1>1, GetEnvFound
<1>3. UNCHANGED sources
  BY DEF SettingsNext, EarlyDefaults, LoadEnvFile, DefineFlags, ParseFlags, Validate,
     Override, Daemonize, Use
<1>4. process' \in {process, "child"}
  BY DEF SettingsNext, EarlyDefaults, LoadEnvFile, DefineFlags, ParseFlags, Validate,
     Override, Daemonize, Use
<1>5. environ' \in Found /\ default' \in Found /\ value' \in Found
  <2>1. CASE EarlyDefaults
    BY <1>1, <1>2, <2>1 DEF EarlyDefaults
  <2>2. CASE LoadEnvFile
    BY <1>1, FromAndIs, <2>2 DEF LoadEnvFile, SettingsTypeOK, Origins
  <2>3. CASE DefineFlags
    BY <1>1, <1>2, <2>3 DEF DefineFlags
  <2>4. CASE ParseFlags
    <3>1. Said(flagText) \in Found /\ Said(cfText) \in Found
      BY <1>1, FromAndIs DEF Said, SettingsTypeOK, Origins
    <3> QED
      BY <1>1, <2>4, <3>1 DEF ParseFlags, Either
  <2>5. CASE Validate
    BY <1>1, <2>5 DEF Validate
  <2>6. CASE Override
    BY <1>1, <1>2, <2>6 DEF Override
  <2>7. CASE Daemonize
    BY <1>1, <2>7 DEF Daemonize
  <2>8. CASE Use
    BY <1>1, <2>8 DEF Use
  <2> QED
    BY <2>1, <2>2, <2>3, <2>4, <2>5, <2>6, <2>7, <2>8 DEF SettingsNext
<1>6. step' \in {"early", "load", "define", "parse", "validate", "override", "use",
                 "ready", "exit", "panic"}
  BY DEF SettingsNext, EarlyDefaults, LoadEnvFile, DefineFlags, ParseFlags, Validate,
     Override, Daemonize, Use, Goto
<1> QED
  BY <1>3, <1>4, <1>5, <1>6 DEF SettingsTypeOK, sources

-----------------------------------------------------------------------------
(* What the sources determine *)

Environ(loaded) ==
    IF loaded /\ envText = "unset" /\ fileText # "unset"
    THEN [from |-> "file", is |-> fileText] ELSE [from |-> "environment", is |-> envText]

Reading(e, otherwise) ==
    IF e.is \in {"unset", "empty"} THEN otherwise
    ELSE IF e.is = "junk" /\ option \in Numbers THEN otherwise
    ELSE IF e.is = "junk" /\ option \in Booleans THEN [e EXCEPT !.is = "false"]
    ELSE e

Default ==
    IF option \in FlagOnly THEN BuiltIn
    ELSE Reading(Environ(option \in ReadEarly => process = "child"), BuiltIn)

Flag(text) == IF text = "unset" THEN Default ELSE [from |-> "flag", is |-> text]

Parsed == IF option = "CLOUDFLARED" THEN Either(Flag(cfText), Flag(flagText))
          ELSE Flag(flagText)

Replaced == {"MAX_ACTIVE_UPSTREAMS", "TARGET_RETRY_UPSTREAMS", "TARGET_FAIL_THRESHOLD",
             "TARGET_FAIL_TTL"}

Validated ==
    IF option \in Choices /\ Parsed.is = "empty" THEN BuiltIn
    ELSE IF Parsed.is = "low" /\ option \in Replaced THEN BuiltIn ELSE Parsed

Overridden ==
    IF option = "TARGET_PORT" THEN Reading(Environ(TRUE), Validated) ELSE Validated

Used ==
    IF Overridden.is \in {"low", "zero"} /\ option \in {"MAX_CONNECTIONS", "STATUS_FLUSH_SEC"}
    THEN BuiltIn ELSE Overridden

FlagsParse ==
    {flagText, cfText} \cap {"empty", "junk"} # {} => option \in Names \cup Choices
ChoiceMade == option \in Choices => Parsed.is # "junk"

TextsFit ==
    /\ {flagText, envText, fileText} \subseteq TextsOf(option)
    /\ cfText \in TextsOf(option) \cup {"unset"}

Determined ==
    /\ environ = Environ(process = "child" \/ step \notin {"early", "load"})
    /\ default = IF step = "early" \/ (step \in {"load", "define"} /\ option \notin ReadEarly)
                 THEN BuiltIn ELSE Default
    /\ step \in {"validate", "override", "use", "ready"} => FlagsParse
    /\ step \in {"override", "use", "ready"} => ChoiceMade
    /\ step = "validate" => value = Parsed
    /\ step = "override" => value = Validated
    /\ step = "use" => value = Overridden
    /\ step = "ready" => /\ value = Used /\ process # "parent"
                         /\ option = "HEALTH_INTERVAL" => Overridden.is # "low"
    /\ step = "panic" => option = "HEALTH_INTERVAL"

SInv == SettingsTypeOK /\ TextsFit /\ Determined

(* An accepted server can be authenticated with, whatever happens to its   *)
(* connection.                                                             *)
Authenticates ==
    stage \notin {"config", "fatal"} =>
        \/ Methods(server) # {}
        \/ server.AuthMethod = "proxycommand" /\ ~server.KeyPath /\ ~server.Password

LEMMA SInitInv == Init => SInv
<1> SUFFICES ASSUME Init PROVE SInv
  OBVIOUS
<1>1. SettingsTypeOK
  BY InitTypes DEF UpstreamTypeOK
<1>2. TextsFit
  BY DEF Init, SettingsInit, TextsFit
<1>3. Determined
  BY DEF Init, SettingsInit, Determined, Environ
<1> QED
  BY <1>1, <1>2, <1>3 DEF SInv

(* What the sources determine depends on them and on the process alone.    *)
LEMMA SameSources ==
    ASSUME UNCHANGED <<option, flagText, cfText, envText, fileText, process>>
    PROVE  /\ Environ(TRUE)' = Environ(TRUE) /\ Environ(FALSE)' = Environ(FALSE)
           /\ BuiltIn' = BuiltIn /\ Default' = Default /\ Parsed' = Parsed
           /\ Validated' = Validated /\ Overridden' = Overridden /\ Used' = Used
           /\ FlagsParse' = FlagsParse /\ ChoiceMade' = ChoiceMade
<1>1. /\ Environ(TRUE)' = Environ(TRUE) /\ Environ(FALSE)' = Environ(FALSE)
      /\ BuiltIn' = BuiltIn
  BY DEF Environ, BuiltIn
<1>2. Default' = Default
  BY <1>1 DEF Default, Reading, Environ
<1>3. Parsed' = Parsed
  BY <1>2 DEF Parsed, Flag, Either
<1>4. Validated' = Validated
  BY <1>1, <1>3 DEF Validated
<1>5. Overridden' = Overridden
  BY <1>1, <1>4 DEF Overridden, Reading
<1>6. Used' = Used
  BY <1>1, <1>5 DEF Used
<1> QED
  BY <1>1, <1>2, <1>3, <1>4, <1>5, <1>6 DEF FlagsParse, ChoiceMade

LEMMA ReadingIsGetEnv ==
    ASSUME NEW otherwise
    PROVE  GetEnv(option, otherwise) = Reading(environ, otherwise)
BY DEF GetEnv, Reading

LEMMA TextsFitStep ==
    ASSUME TextsFit, UNCHANGED <<option, flagText, cfText, envText, fileText>>
    PROVE  TextsFit'
BY DEF TextsFit, TextsOf

(* Each step of ParseConfig takes one step of the definitions above; the   *)
(* daemon begins again, with the environment as it was left.               *)
LEMMA DeterminedStep ==
    ASSUME SInv, SettingsNext
    PROVE  Determined'
<1>1. UNCHANGED <<option, flagText, cfText, envText, fileText>>
  BY DEF SettingsNext, EarlyDefaults, LoadEnvFile, DefineFlags, ParseFlags, Validate,
     Override, Daemonize, Use, sources
<1>2. option \in Options /\ process \in {"foreground", "parent", "child"}
  BY DEF SInv, SettingsTypeOK
<1>3. CASE EarlyDefaults
  <2>1. step = "early" /\ step' = "load" /\ UNCHANGED <<process, environ>>
    BY <1>3 DEF EarlyDefaults, Goto
  <2>2. environ = Environ(process = "child") /\ default = BuiltIn
    BY <2>1 DEF SInv, Determined
  <2>3. option \in ReadEarly => default' = Default
    BY <1>3, <2>2, OptionKinds, ReadingIsGetEnv
    DEF EarlyDefaults, Default, ReadEarly, FlagOnly, Durations
  <2>4. option \notin ReadEarly => default' = BuiltIn
    BY <1>3, <2>2 DEF EarlyDefaults
  <2>5. environ' = Environ(process = "child")'
    BY <1>1, <2>1, <2>2 DEF Environ
  <2> QED
    BY <1>1, <2>1, <2>3, <2>4, <2>5, SameSources DEF Determined, Environ
<1>4. CASE LoadEnvFile
  <2>1. step = "load" /\ step' = "define" /\ UNCHANGED <<process, default, value>>
    BY <1>4 DEF LoadEnvFile, Goto
  <2>2. environ = Environ(process = "child")
    BY <2>1 DEF SInv, Determined
  <2>3. environ' = Environ(TRUE)
    BY <1>4, <2>2 DEF LoadEnvFile, Environ
  <2> QED
    BY <1>1, <2>1, <2>3, SameSources DEF SInv, Determined, Environ
<1>5. CASE DefineFlags
  <2>1. step = "define" /\ step' = "parse" /\ UNCHANGED <<process, environ, value>>
    BY <1>5 DEF DefineFlags, Goto
  <2>2. environ = Environ(TRUE)
    BY <2>1 DEF SInv, Determined, Environ
  <2>3. default' = Default
    <3>1. CASE option \in ReadEarly
      BY <1>5, <2>1, <3>1 DEF DefineFlags, SInv, Determined
    <3>2. CASE option \in FlagOnly
      BY <1>5, <2>1, <3>2, OptionKinds DEF DefineFlags, SInv, Determined, Default
    <3>3. CASE option \notin ReadEarly \cup FlagOnly
      BY <1>5, <2>2, <3>3, ReadingIsGetEnv DEF DefineFlags, Default, Environ
    <3> QED
      BY <3>1, <3>2, <3>3
  <2> QED
    BY <1>1, <2>1, <2>2, <2>3, SameSources DEF Determined, Environ
<1>6. CASE ParseFlags
  <2>1. /\ UNCHANGED <<process, environ, default>>
        /\ step = "parse" /\ step' \in {"validate", "exit"}
    BY <1>6 DEF ParseFlags, Goto
  <2>2. environ = Environ(TRUE) /\ default = Default
    BY <2>1 DEF SInv, Determined, Environ
  <2>3. step' = "validate" => FlagsParse /\ value' = Parsed
    BY <1>6, <2>2 DEF ParseFlags, Goto, FlagsParse, Parsed, Flag, Said, Either
  <2> QED
    BY <1>1, <2>1, <2>2, <2>3, SameSources DEF Determined, Environ
<1>7. CASE Validate
  <2>1. /\ UNCHANGED <<process, environ, default>>
        /\ step = "validate" /\ step' \in {"override", "exit"}
    BY <1>7 DEF Validate, Goto
  <2>2. environ = Environ(TRUE) /\ default = Default /\ value = Parsed /\ FlagsParse
    BY <2>1 DEF SInv, Determined, Environ
  <2>3. step' = "override" => ChoiceMade /\ value' = Validated
    BY <1>7, <2>2 DEF Validate, Goto, ChoiceMade, Validated, Replaced
  <2> QED
    BY <1>1, <2>1, <2>2, <2>3, SameSources DEF Determined, Environ
<1>8. CASE Override
  <2>1. /\ UNCHANGED <<process, environ, default>> /\ step = "override" /\ step' = "use"
    BY <1>8 DEF Override, Goto
  <2>2. /\ environ = Environ(TRUE) /\ default = Default /\ value = Validated
        /\ FlagsParse /\ ChoiceMade
    BY <2>1 DEF SInv, Determined, Environ
  <2>3. value' = Overridden
    BY <1>8, <2>2, ReadingIsGetEnv DEF Override, Overridden
  <2> QED
    BY <1>1, <2>1, <2>2, <2>3, SameSources DEF Determined, Environ
<1>9. CASE Daemonize
  <2>1. /\ step = "use" /\ step' = "early" /\ process' = "child"
        /\ environ' = environ /\ default' = BuiltIn
    BY <1>9 DEF Daemonize, Goto
  <2>2. environ = Environ(TRUE)
    BY <2>1 DEF SInv, Determined, Environ
  <2>3. BuiltIn' = BuiltIn /\ Environ(TRUE)' = Environ(TRUE)
    BY <1>1 DEF BuiltIn, Environ
  <2> QED
    BY <1>1, <2>1, <2>2, <2>3 DEF Determined, Environ
<1>10. CASE Use
  <2>1. /\ UNCHANGED <<process, environ, default>> /\ process # "parent"
        /\ step = "use" /\ step' \in {"ready", "panic"}
    BY <1>10 DEF Use, Goto
  <2>2. /\ environ = Environ(TRUE) /\ default = Default /\ value = Overridden
        /\ FlagsParse /\ ChoiceMade
    BY <2>1 DEF SInv, Determined, Environ
  <2>3. /\ step' = "panic" => option = "HEALTH_INTERVAL"
        /\ step' = "ready" =>
              value' = Used /\ (option = "HEALTH_INTERVAL" => Overridden.is # "low")
    BY <1>10, <2>2 DEF Use, Goto, Used
  <2> QED
    BY <1>1, <2>1, <2>2, <2>3, SameSources DEF Determined, Environ
<1> QED
  BY <1>3, <1>4, <1>5, <1>6, <1>7, <1>8, <1>9, <1>10 DEF SettingsNext

LEMMA SInvariance == Spec => []SInv
<1>1. SInv /\ [Next]_vars => SInv'
  <2> SUFFICES ASSUME SInv, [Next]_vars PROVE SInv'
    OBVIOUS
  <2>1. CASE SettingsNext
    <3>1. UNCHANGED <<option, flagText, cfText, envText, fileText>>
      BY <2>1 DEF SettingsNext, EarlyDefaults, LoadEnvFile, DefineFlags, ParseFlags,
         Validate, Override, Daemonize, Use, sources
    <3> QED
      BY <2>1, <3>1, SettingsTypes, TextsFitStep, DeterminedStep DEF SInv
  <2>2. CASE UNCHANGED settings
    <3>1. UNCHANGED <<option, flagText, cfText, envText, fileText, process, environ,
                      default, value, step>>
      BY <2>2 DEF settings, sources
    <3>2. SettingsTypeOK' /\ TextsFit'
      BY <3>1, TextsFitStep DEF SInv, SettingsTypeOK
    <3>3. Determined'
      BY <3>1, SameSources DEF SInv, Determined, Environ
    <3> QED
      BY <3>2, <3>3 DEF SInv
  <2> QED
    BY <2>1, <2>2 DEF Next, vars, Configure, ParseServersFile, Connect, HandshakeEnds,
       DirectDialEnds, Close, ChildExits
<1> QED
  BY <1>1, SInitInv, PTL DEF Spec

(* Every variable keeps its type; an upstream is dialled only once the     *)
(* configuration is complete.                                              *)
THEOREM TypeCorrect == Spec => []UpstreamTypeOK
<1>1. UpstreamTypeOK /\ [Next]_vars => UpstreamTypeOK'
  <2> SUFFICES ASSUME UpstreamTypeOK, [Next]_vars PROVE UpstreamTypeOK'
    OBVIOUS
  <2>1. CASE Configure
    <3>1. SettingsTypeOK'
      BY <2>1, SettingsTypes DEF Configure, UpstreamTypeOK
    <3> QED
      BY <2>1, <3>1 DEF Configure, UpstreamTypeOK
  <2>2. CASE ParseServersFile
    <3>1. Ready /\ UNCHANGED <<settings, child>>
      BY <2>2 DEF ParseServersFile
    <3>2. PICK l \in Line, a \in Account :
             IF Accepted(l, a)
             THEN /\ Go("config", "down")
                  /\ server' = [AuthMethod |-> AuthMethodOf(l, a),
                                KeyPath |-> a.KeyFile \/ DefaultKeyUsed(l, a),
                                Password |-> l.password = "text",
                                runnable |-> a.ProxyCommand = "command"]
             ELSE Go("config", "fatal") /\ UNCHANGED server
      BY <2>2 DEF ParseServersFile
    <3>3. stage' \in {"down", "fatal"}
      BY <3>2 DEF Go
    <3>4. server' \in Server /\ (server'.AuthMethod = "password" => server'.Password)
      <4>1. CASE Accepted(l, a)
        <5>1. (a.KeyFile \/ DefaultKeyUsed(l, a)) \in BOOLEAN
          BY DEF DefaultKeyUsed, Account
        <5>2. AuthMethodOf(l, a) \in {"key", "password", "proxycommand"}
          BY DEF AuthMethodOf
        <5>3. AuthMethodOf(l, a) = "password" => l.password = "text"
          BY DEF AuthMethodOf
        <5>4. (l.password = "text") \in BOOLEAN /\ (a.ProxyCommand = "command") \in BOOLEAN
          OBVIOUS
        <5> DEFINE parsed == [AuthMethod |-> AuthMethodOf(l, a),
                              KeyPath |-> a.KeyFile \/ DefaultKeyUsed(l, a),
                              Password |-> l.password = "text",
                              runnable |-> a.ProxyCommand = "command"]
        <5>5. parsed \in Server
          BY <5>1, <5>2, <5>4, Zenon DEF Server
        <5>6. parsed.AuthMethod = "password" => parsed.Password
          BY <5>3
        <5>7. server' = parsed
          BY <3>2, <4>1
        <5> HIDE DEF parsed
        <5> QED
          BY <5>5, <5>6, <5>7
      <4>2. CASE ~Accepted(l, a)
        BY <3>2, <4>2 DEF UpstreamTypeOK
      <4> QED
        BY <4>1, <4>2
    <3> QED
      BY <3>1, <3>3, <3>4 DEF UpstreamTypeOK, SettingsTypeOK, settings, sources, Ready
  <2>3. CASE Connect \/ HandshakeEnds \/ DirectDialEnds \/ Close \/ ChildExits
    <3>1. UNCHANGED <<settings, server>>
      BY <2>3 DEF Connect, HandshakeEnds, DirectDialEnds, Close, ChildExits
    <3>2. child' \in {child, "running", "none", "exited"}
      BY <2>3 DEF Connect, HandshakeEnds, DirectDialEnds, Close, ChildExits, CloseConn
    <3>3. stage' \in {"handshake", "direct", "proxied", "connected", "down", stage}
      BY <2>3 DEF Connect, HandshakeEnds, DirectDialEnds, Close, ChildExits, Go
    <3>4. stage' = "config" => stage = "config"
      BY <3>3
    <3>5. stage = "config" => stage' = "config"
      BY <2>3 DEF Connect, HandshakeEnds, DirectDialEnds, Close, ChildExits, Go
    <3> QED
      BY <3>1, <3>2, <3>3, <3>4, <3>5
      DEF UpstreamTypeOK, SettingsTypeOK, settings, sources, Ready
  <2>4. CASE UNCHANGED vars
    BY <2>4 DEF vars, settings, sources, UpstreamTypeOK, SettingsTypeOK, Ready
  <2> QED
    BY <2>1, <2>2, <2>3, <2>4 DEF Next
<1> QED
  BY <1>1, InitTypes, PTL DEF Spec

(* A child process exists only behind a handshake or a connection in use:  *)
(* every way out of a handshake and of a connection waits for it           *)
(* (sshclient.go, commandconn.go).                                         *)
THEOREM ChildrenReaped == Spec => []NoChildLeft
<1>1. Init => NoChildLeft
  BY DEF Init, NoChildLeft
<1>2. NoChildLeft /\ [Next]_vars => NoChildLeft'
  BY DEF NoChildLeft, Next, vars, Configure, ParseServersFile, Connect, HandshakeEnds,
     DirectDialEnds, Close, ChildExits, CloseConn, Go
<1> QED
  BY <1>1, <1>2, PTL DEF Spec

(* The texts that are left at each step.                                   *)
LEMMA DefaultText ==
    ASSUME SettingsTypeOK, TextsFit
    PROVE  /\ Default.is \in TextsOf(option) \ {"unset", "empty"}
           /\ Default.is = "junk" => option \in Choices
<1>1. /\ option \in Names \cup Choices \cup Numbers \cup Durations \cup Booleans
      /\ "junk" \in TextsOf(option) => option \notin Names
      /\ BuiltIn.is \in TextsOf(option) \ {"unset", "empty", "junk"}
      /\ option \in Booleans => "false" \in TextsOf(option)
  <2>1. option \in Options
    BY DEF SettingsTypeOK
  <2>2. option \notin Booleans => "good" \in TextsOf(option)
    BY <2>1, OptionKinds DEF TextsOf, Texts, Words
  <2>3. option \in Booleans => {"true", "false"} \subseteq TextsOf(option)
    BY OptionKinds DEF TextsOf, Words
  <2>4. "junk" \in TextsOf(option) => option \notin Names
    BY <2>1, OptionKinds DEF TextsOf
  <2> QED
    BY <2>1, <2>2, <2>3, <2>4, OptionKinds, BuiltInFound DEF Words
<1>2. ASSUME NEW loaded \in BOOLEAN, option \notin FlagOnly
      PROVE  /\ Reading(Environ(loaded), BuiltIn).is \in TextsOf(option) \ {"unset", "empty"}
             /\ Reading(Environ(loaded), BuiltIn).is = "junk" => option \in Choices
  <2>1. Environ(loaded).is \in TextsOf(option)
    BY DEF Environ, TextsFit
  <2> QED
    BY <1>1, <1>2, <2>1, OptionKinds DEF Reading, Environ
<1> QED
  BY <1>1, <1>2 DEF Default

LEMMA ParsedText ==
    ASSUME SettingsTypeOK, TextsFit, FlagsParse
    PROVE  /\ Parsed.is \in TextsOf(option) \ {"unset"}
           /\ Parsed.is \in {"empty", "junk"} => option \in Names \cup Choices
BY DefaultText DEF TextsFit, FlagsParse, Parsed, Flag, Either

LEMMA ValidatedText ==
    ASSUME SettingsTypeOK, TextsFit, FlagsParse, ChoiceMade
    PROVE  /\ Validated.is \in TextsOf(option) \ {"unset"}
           /\ Validated.is \in {"empty", "junk"} => option \in Names
           /\ option \in Replaced => Validated.is # "low"
<1>1. option \notin Booleans => BuiltIn.is = "good" /\ "good" \in TextsOf(option)
  BY BuiltInFound DEF TextsOf, Texts, Words
<1>2. (Choices \cup Replaced) \cap Booleans = {}
  BY DEF Choices, Replaced, Booleans
<1> QED
  BY <1>1, <1>2, ParsedText DEF Validated, ChoiceMade

LEMMA UsedText ==
    ASSUME SettingsTypeOK, TextsFit, FlagsParse, ChoiceMade,
           option \notin Names \cup {"TARGET_PORT"},
           option = "HEALTH_INTERVAL" => Overridden.is # "low"
    PROVE  Usable(Used.is)
<1>1. Overridden = Validated
  BY DEF Overridden
<1>2. /\ TextsOf(option) \subseteq Texts
      /\ "low" \in TextsOf(option) =>
            option \in Replaced \cup {"MAX_CONNECTIONS", "STATUS_FLUSH_SEC", "HEALTH_INTERVAL"}
      /\ "zero" \in TextsOf(option) => option = "MAX_CONNECTIONS"
  <2>1. option \in Options
    BY DEF SettingsTypeOK
  <2>2. option \in Numbers \cup Durations =>
           option \in Replaced \cup {"MAX_CONNECTIONS", "STATUS_FLUSH_SEC", "HEALTH_INTERVAL"}
    BY DEF Numbers, Durations, Replaced
  <2>3. "low" \in TextsOf(option) => option \in Numbers \cup Durations
    BY <2>1, OptionKinds DEF TextsOf, Words
  <2>4. "zero" \in TextsOf(option) => option = "MAX_CONNECTIONS"
    BY <2>1, OptionKinds DEF TextsOf, Words
  <2> QED
    BY <2>2, <2>3, <2>4, TextsAreTexts
<1>3. Used.is \in {"good"} \cup Words
  <2>1. Usable(BuiltIn.is)
    BY BuiltInFound
  <2> QED
    BY <1>1, <1>2, <2>1, ValidatedText DEF Used, Texts, Usable
<1> QED
  BY <1>3 DEF Usable

(* Whatever the sources say, a process that gets to run has values of      *)
(* which it can make use, the port aside (config.go:124-137,147): the      *)
(* premise of the other modules' assumptions on their constants.  A flag   *)
(* that asks for 0 connections gets the built-in limit (app.go:31-33).     *)
THEOREM ValuesAreUsable == Spec => []ValuesUsable
<1>1. ASSUME SInv PROVE ValuesUsable
  <2>1. Ready /\ option \notin Names \cup {"TARGET_PORT"} => Usable(value.is)
    BY <1>1, UsedText DEF SInv, Determined, Ready
  <2>2. ASSUME Ready, option = "MAX_CONNECTIONS", flagText = "zero"
        PROVE  value = BuiltIn
    <3>1. Parsed = [from |-> "flag", is |-> "zero"]
      BY <2>2 DEF Parsed, Flag
    <3>2. Overridden = Parsed
      BY <2>2, <3>1 DEF Overridden, Validated, Choices, Replaced
    <3>3. Used = BuiltIn
      BY <2>2, <3>1, <3>2 DEF Used
    <3> QED
      BY <1>1, <2>2, <3>3 DEF SInv, Determined, Ready
  <2>3. step = "panic" => option = "HEALTH_INTERVAL"
    BY <1>1 DEF SInv, Determined
  <2> QED
    BY <2>1, <2>2, <2>3 DEF ValuesUsable
<1> QED
  BY <1>1, SInvariance, PTL

LEMMA DefaultFrom ==
    ASSUME SettingsTypeOK
    PROVE  /\ Default.from # "flag"
           /\ Usable(fileText) =>
                 /\ Default.from = "file" <=> /\ option \notin FlagOnly
                                              /\ option \in ReadEarly => process = "child"
                                              /\ envText = "unset"
                 /\ Default.from = "file" => Default.is = fileText
<1>1. BuiltIn.from = "program"
  BY BuiltInFound
<1>2. ASSUME NEW loaded \in BOOLEAN
      PROVE  LET r == Reading(Environ(loaded), BuiltIn) IN
             /\ r.from # "flag"
             /\ Usable(fileText) => /\ r.from = "file" <=> loaded /\ envText = "unset"
                                    /\ r.from = "file" => r.is = fileText
  <2>1. CASE loaded /\ envText = "unset" /\ fileText # "unset"
    <3>1. Environ(loaded).from = "file" /\ Environ(loaded).is = fileText
      BY <2>1 DEF Environ
    <3>2. Usable(fileText) => fileText \notin {"unset", "empty", "junk"}
      BY DEF Usable, Words
    <3> QED
      BY <1>1, <2>1, <3>1, <3>2 DEF Reading, Environ
  <2>2. CASE ~(loaded /\ envText = "unset" /\ fileText # "unset")
    <3>1. Environ(loaded) = [from |-> "environment", is |-> envText]
      BY <2>2 DEF Environ
    <3>2. Usable(fileText) => fileText # "unset"
      BY DEF Usable, Words
    <3>3. Reading(Environ(loaded), BuiltIn).from \in {"environment", "program"}
      BY <1>1, <3>1 DEF Reading
    <3> QED
      BY <2>2, <3>2, <3>3
  <2> QED
    BY <2>1, <2>2
<1> QED
  BY <1>1, <1>2 DEF Default

(* The command line, and the file where nobody else says anything.         *)
LEMMA OthersRanked ==
    ASSUME SInv, Ready, option # "CLOUDFLARED"
    PROVE  OneFlagRanked
<1>1. /\ SettingsTypeOK /\ TextsFit /\ value = Used
      /\ environ = Environ(TRUE)
  BY DEF SInv, Determined, Ready, Environ
<1>2. Parsed = Flag(flagText)
  BY DEF Parsed
<1>3. BuiltIn.from = "program"
  BY BuiltInFound
<1>4. option = "TARGET_PORT" => /\ option \in Numbers /\ option \notin ReadEarly \cup FlagOnly
                                /\ environ.is \in {"unset", "empty", "junk", "low", "good"}
  <2>1. environ.is \in TextsOf(option)
    BY <1>1 DEF Environ, TextsFit
  <2> QED
    BY <2>1, OptionKinds DEF TextsOf, Texts, Words, ReadEarly, FlagOnly, Durations
<1>5. \A text : Usable(text) => text \notin {"unset", "empty", "junk", "low", "zero"}
  BY DEF Usable, Words
<1>6. ASSUME Usable(flagText)
      PROVE  \/ value.from = "flag"
             \/ option = "TARGET_PORT" /\ environ.is \in {"low", "good"}
  <2>1. Validated.from = "flag" /\ Validated.is = flagText
    BY <1>2, <1>5, <1>6 DEF Flag, Validated
  <2>2. CASE option # "TARGET_PORT"
    BY <1>1, <1>5, <1>6, <2>1, <2>2 DEF Overridden, Used
  <2>3. CASE option = "TARGET_PORT" /\ environ.is \in {"unset", "empty", "junk"}
    <3>1. Overridden = Validated
      BY <1>1, <1>4, <2>3 DEF Overridden, Reading
    <3> QED
      BY <1>1, <1>5, <1>6, <2>1, <3>1 DEF Used
  <2> QED
    BY <1>4, <2>2, <2>3
<1>7. ASSUME Usable(fileText)
      PROVE  value.from = "file" <=> /\ option \notin FlagOnly
                                     /\ option \in ReadEarly => process = "child"
                                     /\ envText = "unset"
                                     /\ flagText = "unset" \/ option = "TARGET_PORT"
  <2> DEFINE InFile == /\ option \notin FlagOnly
                       /\ option \in ReadEarly => process = "child"
                       /\ envText = "unset"
  <2>1. /\ Default.from # "flag" /\ (Default.from = "file" <=> InFile)
        /\ Default.from = "file" => Default.is = fileText
    BY <1>1, <1>7, DefaultFrom
  <2>2. /\ Validated.from = "file" <=> InFile /\ flagText = "unset"
        /\ Validated.from = "file" => Validated.is = fileText
    BY <1>2, <1>3, <1>5, <1>7, <2>1 DEF Flag, Validated
  <2>3. CASE option # "TARGET_PORT"
    BY <1>1, <1>3, <1>5, <1>7, <2>2, <2>3 DEF Overridden, Used
  <2>4. CASE option = "TARGET_PORT"
    <3>1. InFile <=> envText = "unset"
      BY <1>4, <2>4
    <3>2. value = Reading(environ, Validated) /\ option \notin Booleans
      BY <1>1, <1>4, <2>4, OptionKinds DEF Overridden, Used
    <3>3. CASE envText = "unset"
      <4>1. environ.from = "file" /\ environ.is = fileText
        BY <1>1, <1>5, <1>7, <3>3 DEF Environ
      <4>2. value = environ
        BY <1>5, <1>7, <3>2, <4>1 DEF Reading
      <4> QED
        BY <2>4, <3>1, <3>3, <4>1, <4>2
    <3>4. CASE envText # "unset"
      <4>1. environ.from = "environment"
        BY <1>1, <3>4 DEF Environ
      <4>2. value \in {environ, Validated}
        BY <3>2 DEF Reading
      <4> QED
        BY <2>2, <3>1, <3>4, <4>1, <4>2
    <3> QED
      BY <3>3, <3>4
  <2> QED
    BY <2>3, <2>4
<1> QED
  BY <1>6, <1>7 DEF OneFlagRanked

(* The two flags for Cloudflare.                                           *)
LEMMA EitherRanked ==
    ASSUME SInv, Ready, option = "CLOUDFLARED"
    PROVE  EitherFlagCounts
<1>1. value = Used /\ process \in {"foreground", "parent", "child"}
  BY DEF SInv, SettingsTypeOK, Determined, Ready
<1>2. /\ option \in ReadEarly /\ option \in Booleans /\ option \notin FlagOnly
      /\ option \notin Choices \cup Replaced \cup Numbers
      /\ option \notin {"MAX_CONNECTIONS", "STATUS_FLUSH_SEC", "TARGET_PORT"}
  BY DEF ReadEarly, Booleans, FlagOnly, Durations, Choices, Replaced, Numbers
<1>3. BuiltIn.is = "false"
  BY <1>2 DEF BuiltIn
<1>4. value = Parsed
  BY <1>1, <1>2 DEF Used, Overridden, Validated
<1>5. Default.is = "true" <=> CloudflaredDefault
  <2>1. Default = Reading(Environ(process = "child"), BuiltIn)
    BY <1>2 DEF Default
  <2>2. CASE process = "child" /\ envText = "unset" /\ fileText # "unset"
    <3>1. Environ(process = "child") = [from |-> "file", is |-> fileText]
      BY <2>2 DEF Environ
    <3> QED
      BY <1>2, <1>3, <2>1, <2>2, <3>1 DEF Reading, CloudflaredDefault
  <2>3. CASE ~(process = "child" /\ envText = "unset" /\ fileText # "unset")
    <3>1. Environ(process = "child") = [from |-> "environment", is |-> envText]
      BY <2>3 DEF Environ
    <3> QED
      BY <1>2, <1>3, <2>1, <2>3, <3>1 DEF Reading, CloudflaredDefault
  <2> QED
    BY <2>2, <2>3
<1>6. \A text : Flag(text).is = "true" <=> text = "true" \/ (text = "unset" /\ CloudflaredDefault)
  BY <1>5 DEF Flag
<1>7. Parsed.is = "true" <=> Flag(cfText).is = "true" \/ Flag(flagText).is = "true"
  BY DEF Parsed, Either
<1> QED
  BY <1>4, <1>6, <1>7 DEF EitherFlagCounts

(* Which source is in force: the flag, then the environment, then the      *)
(* file, with the exceptions that SourcesRanked names and no other, in     *)
(* the foreground and in the daemon (config.go:85-127,139, daemon.go:42).  *)
THEOREM SourcesAreRanked == Spec => []SourcesRanked
<1>1. SInv => SourcesRanked
  BY OthersRanked, EitherRanked DEF SourcesRanked
<1> QED
  BY <1>1, SInvariance, PTL

(* A server that was accepted can be authenticated with for as long as it  *)
(* is used, but for a ProxyCommand without key and password                *)
(* (servers.go, sshserver.go:76).                                          *)
THEOREM AcceptedAuthenticates == Spec => []CanAuthenticate
<1>1. Init => Authenticates
  BY DEF Init, Authenticates
<1>2. Authenticates /\ [Next]_vars => Authenticates'
  <2> SUFFICES ASSUME Authenticates, [Next]_vars PROVE Authenticates'
    OBVIOUS
  <2>1. CASE ParseServersFile
    <3>1. PICK l \in Line, a \in Account :
             IF Accepted(l, a)
             THEN /\ Go("config", "down")
                  /\ server' = [AuthMethod |-> AuthMethodOf(l, a),
                                KeyPath |-> a.KeyFile \/ DefaultKeyUsed(l, a),
                                Password |-> l.password = "text",
                                runnable |-> a.ProxyCommand = "command"]
             ELSE Go("config", "fatal") /\ UNCHANGED server
      BY <2>1 DEF ParseServersFile
    <3>2. CASE ~Accepted(l, a)
      BY <3>1, <3>2 DEF Go, Authenticates
    <3>3. CASE Accepted(l, a)
      <4>1. /\ server'.AuthMethod = AuthMethodOf(l, a)
            /\ server'.KeyPath = (a.KeyFile \/ DefaultKeyUsed(l, a))
            /\ server'.Password = (l.password = "text")
        <5>1. server' = [AuthMethod |-> AuthMethodOf(l, a),
                         KeyPath |-> a.KeyFile \/ DefaultKeyUsed(l, a),
                         Password |-> l.password = "text",
                         runnable |-> a.ProxyCommand = "command"]
          BY <3>1, <3>3
        <5> QED
          BY <5>1, Zenon
      <4>2. Proxied(a) \/ a.KeyFile \/ l.password = "text" \/ a.defaultKey
        BY <3>3 DEF Accepted
      <4>3. CASE Proxied(a)
        BY <4>1, <4>3 DEF AuthMethodOf, Methods, Authenticates
      <4>4. CASE ~Proxied(a) /\ (a.KeyFile \/ l.password # "text")
        <5>1. server'.AuthMethod = "key" /\ server'.KeyPath
          BY <4>1, <4>2, <4>4 DEF AuthMethodOf, DefaultKeyUsed
        <5> QED
          BY <5>1 DEF Methods, Authenticates
      <4>5. CASE ~Proxied(a) /\ ~(a.KeyFile \/ l.password # "text")
        <5>1. server'.AuthMethod = "password" /\ server'.Password
          BY <4>1, <4>5 DEF AuthMethodOf
        <5> QED
          BY <5>1 DEF Methods, Authenticates
      <4> QED
        BY <4>3, <4>4, <4>5
    <3> QED
      BY <3>2, <3>3
  <2>2. CASE ~ParseServersFile
    <3>1. UNCHANGED server /\ (stage = "config" => stage' = "config")
          /\ (stage = "fatal" => stage' = "fatal")
      BY <2>2 DEF Next, vars, Configure, Connect, HandshakeEnds, DirectDialEnds, Close,
         ChildExits, Go
    <3> QED
      BY <3>1 DEF Authenticates, Methods
  <2> QED
    BY <2>1, <2>2
<1>3. Authenticates => CanAuthenticate
  BY DEF Authenticates, CanAuthenticate
<1> QED
  BY <1>1, <1>2, <1>3, PTL DEF Spec
=============================================================================
