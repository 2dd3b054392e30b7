----------------------------- MODULE MCContexts -----------------------------
EXTENDS Contexts

MCOld(T) == IF T = "topic" THEN "old topic" ELSE "old project"
=============================================================================
