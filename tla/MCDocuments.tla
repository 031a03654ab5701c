------------------------------ MODULE MCDocuments ------------------------------
EXTENDS DocumentsProperties
================================================================================
