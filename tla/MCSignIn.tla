------------------------------ MODULE MCSignIn ------------------------------
\* SignIn, checked up to the names of devices, challenges and requests.
EXTENDS SignIn, TLC

Interchangeable == Permutations(Devices) \cup Permutations(Challenges) \cup Permutations(Handlers)
=============================================================================
