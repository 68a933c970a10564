-------------------------- MODULE MCDataLifecycle ---------------------------
(* A small workspace: one user who may be erased, an alert and its end in  *)
(* one group, and a deployment that changes the rule in between.           *)
EXTENDS DataLifecycle

CONSTANTS u1, u2, anonymous1, anonymous2

MCAnonymous == [u \in Users |-> IF u = u1 THEN anonymous1 ELSE anonymous2]

Type(key, version, status) ==
  [key |-> key, source |-> "ops", version |-> version, status |-> status,
   severity |-> "critical", variables |-> {"host"}, required |-> {"host"},
   default |-> "en",
   locales |-> [l \in {"en"} |-> [tokens |-> {"host"}, labels |-> {}]],
   actions |-> {}, resolvers |-> {}]

Inbox == [channel |-> "in_app", step |-> 0, mode |-> "", delay |-> 0,
          window |-> 0, template |-> "", connector |-> "", mandatory |-> FALSE]
Mail == [Inbox EXCEPT !.channel = "mail", !.template = "alert",
                      !.connector = "smtp"]

\* An alert goes to the inbox and by mail; its end to the inbox alone.
CatalogOf(version, status, channels) ==
  [types |-> {Type("disk", version, status), Type("disk_ok", 1, "published")},
   rules |-> [k \in {"disk"} |->
     [enabled |-> TRUE, recovery |-> "disk_ok", resolvers |-> {},
      channels |-> channels]]]

\* The second configuration is refused, the third no longer sends mail.
MCCatalogs == <<CatalogOf(1, "published", {Inbox, Mail}),
                CatalogOf(2, "draft", {Inbox, Mail}),
                CatalogOf(2, "published", {Inbox})>>

Intent(id, key, type, alert, occurred) ==
  [id |-> id, key |-> key, type |-> type, recipients |-> {u1},
   resolvers |-> {}, variables |-> {"host"}, locale |-> "de",
   severity |-> "", subject |-> "", group |-> "sda", action |-> "",
   alert |-> alert, occurred |-> occurred]

MCIntents == {Intent("e1", "k1", "disk", "firing", 0),
              Intent("e2", "k2", "disk_ok", "resolved", 0)}

MCPersonalRows == {[kind |-> "delegation", owner |-> u2, other |-> u1]}
MCHoldSets ==
  {[tables |-> {"inbox_items", "event_failures", "delivery_reservations"},
    rows |-> {<<"events", "e2">>}]}
=============================================================================
