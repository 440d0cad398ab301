----------------------------- MODULE MCPhoneView -----------------------------
EXTENDS PhoneView
=============================================================================
