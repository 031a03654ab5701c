--------------------------------- MODULE MCSignIn ---------------------------------
EXTENDS SignIn
===================================================================================
