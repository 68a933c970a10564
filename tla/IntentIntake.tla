---------------------------- MODULE IntentIntake ----------------------------
(***************************************************************************)
(* From a producer's intent to the event that is stored: the catalog of    *)
(* event types and rules that a process starts with, its validation, and   *)
(* the compiler.  Everything here is a pure function of its arguments.     *)
(*                                                                         *)
(* A catalog is a record [types, rules]: a set of event types, and a       *)
(* function from event type keys to rules.  Text is abstracted to the      *)
(* variables it uses: a content is a record [tokens, labels], the          *)
(* variables its fragments name and the actions it has a label for.        *)
(* "" stands for a field that is left empty.                               *)
(***************************************************************************)
EXTENDS Integers, FiniteSets

CONSTANTS ExternalChannels,  \* the channels the configuration supports
          SensitiveVariables \* the variable keys that look like secrets

Severities == {"info", "warning", "critical"}
ActionStates == {"none", "open", "completed", "expired", "cancelled"}
AlertStates == {"", "firing", "resolved"}
ActionKinds == {"route", "business_action"}

-----------------------------------------------------------------------------
(* The catalog.                                                            *)

Mode(channel) == IF channel.mode = "" THEN "immediate" ELSE channel.mode

ValidEventType(t) ==
  /\ t.version >= 1 /\ t.status = "published"
  /\ t.default \in DOMAIN t.locales
  /\ t.severity \in Severities
  /\ t.variables \cap SensitiveVariables = {}
  /\ t.required \subseteq t.variables
  /\ \A a \in t.actions : a.kind \in ActionKinds
  /\ \A l \in DOMAIN t.locales :
       /\ {a.key : a \in t.actions} \subseteq t.locales[l].labels
       /\ t.locales[l].tokens \subseteq t.variables

\* A digest collects for a while; it is neither delayed nor escalated.
ValidMode(channel) ==
  \/ Mode(channel) = "immediate"
  \/ /\ Mode(channel) = "digest"
     /\ channel.window > 0 /\ channel.delay = 0 /\ channel.step = 0

\* The inbox itself is no external channel: it has no template, no connector
\* and no delay.
ValidTarget(channel) ==
  IF channel.channel = "in_app"
  THEN /\ channel.template = "" /\ channel.connector = ""
       /\ channel.delay = 0 /\ channel.step = 0 /\ channel.window = 0
       /\ Mode(channel) = "immediate"
  ELSE /\ channel.channel \in ExternalChannels
       /\ channel.template # "" /\ channel.connector # ""

ValidRule(rule, keys) ==
  /\ rule.recovery \in keys \union {""}
  /\ \A c \in rule.channels :
       /\ c.delay >= 0 /\ c.step >= 0 /\ c.window >= 0
       /\ ValidMode(c) /\ ValidTarget(c)
       /\ \A d \in rule.channels :
            c.channel = d.channel /\ c.step = d.step => c = d

\* An action key means the same in every event type.
ActionsAgree(types) ==
  \A s, t \in types : \A a \in s.actions : \A b \in t.actions :
    a.key = b.key => a.kind = b.kind /\ a.resource = b.resource

ValidCatalog(catalog) ==
  LET keys == {t.key : t \in catalog.types}
  IN  /\ \A t \in catalog.types : ValidEventType(t)
      /\ \A s, t \in catalog.types : s.key = t.key => s = t
      /\ \A key \in DOMAIN catalog.rules :
           key \in keys /\ ValidRule(catalog.rules[key], keys)
      /\ ActionsAgree(catalog.types)

-----------------------------------------------------------------------------
(* The compiler.                                                           *)

Published(catalog, key) == \E t \in catalog.types : t.key = key
EventType(catalog, key) == CHOOSE t \in catalog.types : t.key = key
HasRule(catalog, key) == key \in DOMAIN catalog.rules

AllowedResolvers(catalog, t) ==
  t.resolvers \union
    IF HasRule(catalog, t.key) THEN catalog.rules[t.key].resolvers ELSE {}

Locale(t, requested) ==
  IF requested \in DOMAIN t.locales THEN requested ELSE t.default

\* Every locale is rendered, not only the one that was asked for, and a
\* variable that is not supplied cannot be rendered.
Renders(t, supplied) ==
  /\ supplied \subseteq t.variables /\ t.required \subseteq supplied
  /\ \A l \in DOMAIN t.locales : t.locales[l].tokens \subseteq supplied

Severity(t, intent) ==
  IF intent.severity = "" THEN t.severity ELSE intent.severity

ActionState(t, intent) ==
  IF intent.action # "" THEN intent.action
  ELSE IF t.actions = {} THEN "none" ELSE "open"

FirstAttemptAt(intent, channel) ==
  IF channel.window > 0 THEN intent.occurred + channel.window
  ELSE IF channel.delay > 0 THEN intent.occurred + channel.delay ELSE 0

DigestKey(intent, channel) ==
  IF channel.mode = "digest"
  THEN <<intent.type, channel.channel, channel.template, intent.recipients,
         intent.locale>>
  ELSE <<>>

\* The ID is the same whenever the intent is compiled again.
PlanID(intent, channel) ==
  <<intent.id, channel.channel, channel.connector, channel.step>>

CompilePlan(intent, channel) ==
  [id |-> PlanID(intent, channel), channel |-> channel.channel,
   mode |-> Mode(channel), digest |-> DigestKey(intent, channel),
   mandatory |-> channel.mandatory, recipients |-> intent.recipients,
   first |-> FirstAttemptAt(intent, channel), text |-> "rendered"]

CompilePlans(catalog, intent) ==
  IF HasRule(catalog, intent.type) /\ catalog.rules[intent.type].enabled
  THEN {CompilePlan(intent, c) : c \in
          {d \in catalog.rules[intent.type].channels : d.channel # "in_app"}}
  ELSE {}

\* ValidateEvent, for what the catalog does not guarantee already.  An action
\* has to name the resource it is about.
ValidEvent(t, intent) ==
  /\ intent.id # "" /\ intent.key # ""
  /\ Severity(t, intent) \in Severities
  /\ ActionState(t, intent) \in ActionStates
  /\ intent.alert \in AlertStates
  /\ intent.alert # "" => intent.group # ""
  /\ t.actions # {} => intent.subject # ""
  /\ intent.recipients # {} \/ intent.resolvers # {}

Compiles(catalog, intent) ==
  /\ Published(catalog, intent.type)
  /\ LET t == EventType(catalog, intent.type)
     IN  /\ intent.resolvers \subseteq AllowedResolvers(catalog, t)
         /\ Renders(t, intent.variables)
         /\ ValidEvent(t, intent)

\* What Compile returns, without the time of compilation.
Compile(catalog, intent) ==
  LET t == EventType(catalog, intent.type)
  IN  [id |-> intent.id, source |-> t.source, key |-> intent.key,
       type |-> t.key, version |-> t.version,
       locale |-> Locale(t, intent.locale), variables |-> intent.variables,
       recipients |-> intent.recipients, resolvers |-> intent.resolvers,
       severity |-> Severity(t, intent), subject |-> intent.subject,
       group |-> intent.group, action |-> ActionState(t, intent),
       alert |-> intent.alert, occurred |-> intent.occurred,
       text |-> "rendered", plans |-> CompilePlans(catalog, intent)]
=============================================================================
