--------------------------------- MODULE MCPaging ---------------------------------
EXTENDS Paging
===================================================================================
