---------------------------------- MODULE Errors ----------------------------------
(***************************************************************************)
(* HttpExceptionFilter.toResponse: every exception a handler throws becomes *)
(* a status and a code, and the portal switches on the two.  Messages,     *)
(* details and request ids are left out.                                   *)
(*                                                                         *)
(* An exception is a record.  "kind" says which branch of the filter knows *)
(* it; NoCode stands for a payload that carries no code of its own.        *)
(***************************************************************************)
EXTENDS Naturals

NoCode == "none"

Response(status, code) == [status |-> status, code |-> code]

\* The classes of errors/domain-errors.ts.
DomainError ==
  [IllegalStateTransitionError |-> Response(409, "ILLEGAL_STATE_TRANSITION"),
   UnauthorizedTransitionError |-> Response(403, "FORBIDDEN"),
   ConcurrentModificationError |-> Response(409, "CONCURRENT_MODIFICATION"),
   ReviewerEqualsApproverError |-> Response(403, "FORBIDDEN"),
   IdempotencyKeyReusedError   |-> Response(409, "IDEMPOTENCY_KEY_REUSED")]

\* PrismaClientKnownRequestError, by its code.
KnownPrisma == [P2002 |-> Response(409, "DUPLICATE_RESOURCE"),
                P2025 |-> Response(404, "NOT_FOUND")]

\* A HttpException with or without a code in its payload; the one of the
\* validation pipe has a list of messages.
Http(status, code) ==
  [kind |-> "http", status |-> status, code |-> code, validation |-> FALSE]

CodeForStatus(status) ==
  CASE status = 401 -> "UNAUTHENTICATED"
    [] status = 403 -> "FORBIDDEN"
    [] status = 404 -> "NOT_FOUND"
    [] status = 409 -> "CONFLICT"
    [] status = 413 -> "DOCUMENT_TOO_LARGE"
    [] status = 429 -> "RATE_LIMITED"
    [] OTHER -> "INTERNAL_ERROR"

NormalizeNestException(e) ==
  CASE e.status = 400 /\ e.validation -> "VALIDATION_FAILED"
    [] e.code # NoCode -> e.code
    [] OTHER -> CodeForStatus(e.status)

ToResponse(e) ==
  CASE e.kind = "domain" -> DomainError[e.class]
    [] e.kind = "http"   -> Response(e.status, NormalizeNestException(e))
    [] e.kind = "multer" -> IF e.code = "LIMIT_FILE_SIZE"
                            THEN Response(413, "DOCUMENT_TOO_LARGE")
                            ELSE Response(400, "UPLOAD_ERROR")
    [] e.kind = "prisma" /\ e.code \in DOMAIN KnownPrisma -> KnownPrisma[e.code]
    [] OTHER -> Response(500, "INTERNAL_ERROR")
===================================================================================
