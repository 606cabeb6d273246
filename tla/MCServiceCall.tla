---- MODULE MCServiceCall ----
EXTENDS ServiceCall
====
