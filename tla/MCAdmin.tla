------------------------------ MODULE MCAdmin -------------------------------
\* Common tags for a small instance of the admin server.
EXTENDS Admin, TLC

MCStartTags == "nf.app" :> "app"
=============================================================================
