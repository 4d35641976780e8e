------------------------------- MODULE Media -------------------------------
(***************************************************************************)
(* How a document is treated, by the extension of its name                 *)
(* (src/src/worker/processor/media.rs, extraction.rs), and how its errors  *)
(* are reported (result.rs).                                               *)
(*                                                                         *)
(* The code ignores the case of an extension, so one spelling stands for   *)
(* all.  "other" is an extension no list of the code names, "odd" one with *)
(* a character that is no letter or digit, "none" no extension.            *)
(***************************************************************************)

Images     == {"bmp", "jpeg", "jpg", "png", "tif", "tiff"}
Office     == {"doc", "docx"}
MarkItDown == {"csv", "docx", "html", "htm", "md", "markdown", "pptx", "txt",
               "xls", "xlsx", "xml"}
Extensions == Images \union Office \union MarkItDown
                     \union {"pdf", "other", "odd", "none"}

-----------------------------------------------------------------------------
(* media.rs.                                                               *)

infer_content_type(extension) ==
  CASE extension \in {"jpeg", "jpg"} -> "image/jpeg"
    [] extension \in {"tif", "tiff"} -> "image/tiff"
    [] extension = "bmp"             -> "image/bmp"
    [] extension = "png"             -> "image/png"
    [] extension = "pdf"             -> "application/pdf"
    [] extension = "doc"             -> "application/msword"
    [] extension = "docx"            -> "application/docx"
    [] OTHER                         -> "application/octet-stream"

is_pdf_content_type(type) == type = "application/pdf"
is_convertible_office_content_type(type) ==
  type \in {"application/msword", "application/docx"}

\* The extension the rest of the worker may use, in a file name for one.
source_extension(extension) == IF extension = "odd" THEN "none" ELSE extension

-----------------------------------------------------------------------------
(* extraction.rs.                                                          *)

\* Seeded bug: every office document is sent to Azure first.
select_azure_for_office(extension) ==
  IF source_extension(extension) \in MarkItDown \ Office THEN "markitdown"
                                                         ELSE "azure"
select_engine(extension) ==
  IF source_extension(extension) \in MarkItDown THEN "markitdown" ELSE "azure"

-----------------------------------------------------------------------------
(* result.rs, for an error of the storage, of the worker's own files, or   *)
(* of the document; the last has the cause at its end.  Two lists of the   *)
(* code, the kind and whether to retry, name the same errors of Azure.     *)

Transient == {"request", "timeout", "rate_limited"}

classify_document_error(cause) ==
  IF cause \in Transient THEN "upstream" ELSE "processing"

\* Seeded bug: an exhausted rate limit is final.
RateLimitFinal(cause) == cause \in Transient \ {"rate_limited"}
is_retryable_document_error(cause) == cause \in Transient

\* The result event of a request whose document ended in outcome.
create_result(outcome) ==
  IF outcome = "ok"
    THEN [result |-> "success", kind |-> "none"]
    ELSE [result |-> IF is_retryable_document_error(outcome) THEN "retryable"
                                                             ELSE "failure",
          kind   |-> classify_document_error(outcome)]
=============================================================================
