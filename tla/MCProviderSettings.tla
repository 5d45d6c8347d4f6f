------------------------- MODULE MCProviderSettings -------------------------
\* Three sessions of one provider: two have the daemon's own server, two one of
\* their profile, of a name the user's own servers have too.
EXTENDS ProviderSettings, TLC

CONSTANTS a1, a2, a3, taime, helper, mine

MCWants == a1 :> {taime} @@ a2 :> {taime, helper} @@ a3 :> {helper}
MCNames == {taime, helper, mine}
=============================================================================
