----------------------------- MODULE Responses -----------------------------
(***************************************************************************)
(* What the API answers: the responses of the handlers, and the way of a   *)
(* thrown error through errorConverter and defaultErrorHandler             *)
(* (apps/api/src/core, apps/api/src/middlewares/error.middleware.ts).      *)
(***************************************************************************)
EXTENDS Integers

\* What a handler, a library or a driver may throw: an ErrorResponse, an error of
\* MongoDB with code 11000, a BSONError, or any other Error.  Of their statusCode
\* fields, 0 stands for none.
Thrown == [class       : {"ErrorResponse", "duplicate", "BSONError", "Error"},
           status      : {0, 400, 401, 403, 404, 409, 422, 429, 500},
           operational : BOOLEAN]

Operational(status) == [class |-> "ErrorResponse", status |-> status, operational |-> TRUE]

BadRequestError == Operational(400)
UnauthorizedError == Operational(401)
ForbiddenError == Operational(403)
NotFoundError == Operational(404)
ConflictError == Operational(409)
UnprocessableEntityError == Operational(422)
TooManyRequestsError == Operational(429)
InternalServerError == Operational(500)

\* Errors that the API's own code did not make: of MongoDB, of its ids, of the body
\* parser, and all the others.
Foreign(class, status) == [class |-> class, status |-> status, operational |-> FALSE]
DuplicateKey == Foreign("duplicate", 0)
InvalidId == Foreign("BSONError", 0)
MalformedBody == Foreign("Error", 400)
Unexpected == Foreign("Error", 0)

\* Mutant: the status of an error without one is left out.
ConvertNoDefault(e) == [e EXCEPT !.class = "ErrorResponse"]

\* Mutant: the handler is mounted without the converter.
PassOn(e) == [e EXCEPT !.status = IF @ = 0 THEN 500 ELSE @]

\* errorConverter: whatever was thrown becomes an ErrorResponse.
Convert(e) ==
    CASE e.class = "ErrorResponse" -> e
      [] e.class = "duplicate"     -> ConflictError
      [] e.class = "BSONError"     -> BadRequestError
      [] OTHER -> [class |-> "ErrorResponse", operational |-> FALSE,
                   status |-> IF e.status = 0 THEN 500 ELSE e.status]

\* An answer, and whether it carries the message of the error.
Answer == [status : {200, 201, 302} \cup (400..500), message : BOOLEAN]

\* defaultErrorHandler, with the status and message of an ErrorResponse.
Handled(e, production) ==
    IF production /\ ~e.operational
       THEN [status |-> 500, message |-> FALSE]
       ELSE [status |-> e.status, message |-> TRUE]

Rejection(e, production) == Handled(Convert(e), production)

\* OkResponse, CreatedResponse, res.redirect and res.send.
Success(status) == [status |-> status, message |-> FALSE]
=============================================================================
