---- MODULE MCClientSync ----
EXTENDS ClientSync
====
