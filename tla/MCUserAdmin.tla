----------------------------- MODULE MCUserAdmin -----------------------------
\* UserAdmin with ids, requests and seed runs that are interchangeable.
EXTENDS UserAdmin, TLC

Fungible ==
    Permutations(UserId) \cup Permutations(Request) \cup Permutations(Seeder)
    \cup Permutations(Email \ {SeedEmail})
=============================================================================
