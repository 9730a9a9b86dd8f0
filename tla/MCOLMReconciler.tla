--------------------------- MODULE MCOLMReconciler ---------------------------
EXTENDS OLMReconciler

c1 == [namespace |-> "ns1", image |-> "i1", channel |-> "c1", extras |-> {}]
a1 == [type |-> "OwnNamespace", own |-> c1, all |-> Nil,
       pullSecret |-> TRUE, propagated |-> {"pull", "other"}, stack |-> FALSE]

\* A valid Addon and the ways to change it: with a MonitoringStack, with an additional
\* CatalogSource and another channel, with another image and one that collides with the main one,
\* with one of the Addon's own name, another namespace, another type, both types, and a
\* pull secret that is missing.
MCRequests ==
    {[a1 EXCEPT !.stack = TRUE],
     [a1 EXCEPT !.own.extras = {"e1"}, !.own.channel = "c2"],
     [a1 EXCEPT !.own.extras = {"main"}, !.own.image = "i2"],
     [a1 EXCEPT !.own.extras = {"name"}],
     [a1 EXCEPT !.own.namespace = "ns2"],
     [a1 EXCEPT !.type = "AllNamespaces", !.own = Nil, !.all = c1],
     [a1 EXCEPT !.type = "AllNamespaces"],
     [a1 EXCEPT !.all = c1],
     [a1 EXCEPT !.propagated = {"other"}]}

MCCreated ==
    {[a1 EXCEPT !.own.extras = {"e1"}, !.own.channel = "c2"],
     [a1 EXCEPT !.type = "AllNamespaces", !.own = Nil, !.all = c1, !.stack = TRUE]}
==============================================================================
